---- MODULE Spec2Model ----
(***************************************************************************)
(* A model of code-janitor's refactoring pipeline: the Snapshot Store      *)
(* (janitor/core/backup.py), the Validation Gate                           *)
(* (janitor/core/validator.py), the Refactor Orchestrator                  *)
(* (janitor/core/refactorer.py) and the clean command that drives them     *)
(* (janitor/cli.py).                                                       *)
(*                                                                         *)
(* File names are sequences of characters, so that str.startswith and      *)
(* Path.with_suffix are computed as Python computes them.  Source text is  *)
(* a sequence of lexemes, so that the validator's regular expressions are  *)
(* matched against text rather than assumed.                               *)
(***************************************************************************)
EXTENDS Integers, Sequences, FiniteSets, TLC

VARIABLES
    fs,         \* the targets on disk: target -> [kind, content, mtime]
    store,      \* the entries of backup_dir that are snapshots
    meta,       \* the *.meta.json files of backup_dir
    now,        \* the wall clock, in seconds (datetime.now())
    mclock,     \* the next modification time the filesystem hands out
    nCreates,   \* how many snapshots create_backup has written
    created,    \* the snapshot paths create_backup has returned so far
    nEdits,     \* how many edits the operator made to targets
    lastOp,     \* the last BackupManager call and what it returned
    pc,         \* where the clean command (or the validate call) stands
    run,        \* run_clean's arguments: [target, dry_run]
    cfg,        \* the Config the components were built with
    lint_results,       \* run_clean's lint_results: [has_issues, auto_fixed]
    analysis_has_issues,\* run_clean's analysis_results.has_issues
    attempt,    \* _call_ai_with_retry's loop variable
    last_error, \* _call_ai_with_retry's last_error
    file_result,        \* what _refactor_file returned
    refactor_results,   \* what Refactorer.refactor returned
    validation_passed,  \* what validate returned
    checks,     \* validate's list of check results
    tmp,        \* the temporary directories on disk: [id, content]
    temp_dir,   \* Validator.temp_dir, 0 for None
    nTmp,       \* how many temporary directories mkdtemp has made
    calls,      \* the validate invocations on one Validator: each one's position and locals
    exit_code,  \* what run_clean returned, -1 while it runs
    events,     \* what the current run has done so far, in order
    arg,        \* the argument of the function under study
    ret         \* what it returned: [done, value]

storeVars == <<fs, store, meta, now, mclock, nCreates, created, nEdits, lastOp>>

cleanVars == <<pc, run, cfg, lint_results, analysis_has_issues, attempt, last_error,
               file_result, refactor_results, validation_passed, checks, tmp, temp_dir, nTmp,
               calls, exit_code, events>>

fnVars == <<arg, ret>>

vars == <<storeVars, cleanVars, fnVars>>

----------------------------------------------------------------------------
(* Bounds of the model. *)

MaxClock == 1
MaxCreates == 2
MaxRetentionCreates == 6
MaxRetentionClock == 2
MaxEdits == 1
MaxAiRetries == 2
MaxValidationRetries == 2
MaxTextLen == 3
MaxResponseLen == 9
MaxAstNodes == 5
MaxNestingDepth == 2
MaxValidateCalls == 3
MaxFunctionLines == 2

----------------------------------------------------------------------------
(* Program constants. *)

\* BackupManager.__init__: self.max_backups = 5
max_backups == 5

----------------------------------------------------------------------------
(* Targets, names and contents. *)

Targets == {"file", "dir", "dir2"}

\* target.name of each target: a file app.py and the directories app, app2
TargetName(t) ==
    CASE t = "file" -> <<"a", "p", "p", ".", "p", "y">>
      [] t = "dir"  -> <<"a", "p", "p">>
      [] t = "dir2" -> <<"a", "p", "p", "2">>

TargetKind(t) == IF t = "file" THEN "file" ELSE "dir"

\* Source texts, as lexeme sequences.
CodeOrig == <<"x">>
CodeEdited == <<"y">>
StoreContents == {CodeOrig, CodeEdited}

\* What the provider's answer can hold: the original text again, a changed text,
\* a text that calls eval.
Candidates == {CodeOrig, <<"x", "x">>, <<"eval", "(", "x">>}

\* How the provider can word its answer: the code alone, the code after a line
\* break, the code in a fenced block after a word of explanation.
Responses ==
    Candidates
    \cup {<<"nl">> \o c : c \in Candidates}
    \cup {<<"x", "nl", "fence", "x", "nl">> \o c \o <<"nl", "fence">> : c \in Candidates}

\* datetime.strftime("%Y%m%d_%H%M%S"): one lexeme per clock second
Timestamp(n) == <<"T0", "T1", "T2", "T3", "T4", "T5", "T6", "T7", "T8", "T9">>[n + 1]

\* f"{target.name}_{timestamp}"
BackupName(name, n) == name \o <<"_", Timestamp(n)>>

\* str.startswith
StartsWith(s, prefix) ==
    /\ Len(prefix) <= Len(s)
    /\ SubSeq(s, 1, Len(prefix)) = prefix

\* the index of the last "." of a name, 0 if there is none (str.rfind + 1)
LastDot(name) ==
    LET dots == {i \in 1..Len(name) : name[i] = "."}
    IN IF dots = {} THEN 0 ELSE CHOOSE i \in dots : \A j \in dots : j <= i

\* PurePath.suffix is empty when the last dot is the first or the last character
\* PurePath.with_suffix('.meta.json')
WithMetaSuffix(name) ==
    LET i == LastDot(name)
    IN IF 1 < i /\ i < Len(name)
       THEN SubSeq(name, 1, i - 1) \o <<".meta.json">>
       ELSE name \o <<".meta.json">>

----------------------------------------------------------------------------
(* BackupManager. *)

NoPath == <<>>

EntryNamed(st, name) == {e \in st : e.name = name}

\* BackupManager._cleanup_old_backups: the directories of backup_dir sorted by
\* st_mtime, newest first; everything after the first max_backups is removed.
\* Entries of equal mtime are ordered as iterdir lists them, which is arbitrary,
\* so the result is the set of stores the call can leave.
cleanup_old_backups(st) ==
    LET dirs == {e \in st : e.kind = "dir"}
    IN IF Cardinality(dirs) <= max_backups
       THEN {st}
       ELSE {(st \ dirs) \cup keep :
                keep \in {k \in SUBSET dirs :
                            /\ Cardinality(k) = max_backups
                            /\ \A a \in k : \A b \in dirs \ k : a.mtime >= b.mtime}}

\* BackupManager._write_metadata: open(meta_file, 'w') replaces a file of that name
write_metadata(m, backup_name, t, at) ==
    LET meta_file == WithMetaSuffix(backup_name)
    IN {r \in m : r.name # meta_file} \cup
       {[name |-> meta_file, original_path |-> t, backup_path |-> backup_name,
         created_at |-> at]}

\* BackupManager.create_backup, the copy: shutil.copy2 of a file replaces an
\* entry of that name; shutil.copytree raises FileExistsError (an OSError) on
\* one.  Both copy the source's modification time to the copy.
\* Result: [ok, store]; ok is FALSE where the code returns None.
copy_to_backup(st, t, f, backup_name, seq, ioFail) ==
    IF ioFail THEN [ok |-> FALSE, store |-> st]
    ELSE IF f.kind = "file" THEN
        [ok |-> TRUE,
         store |-> (st \ EntryNamed(st, backup_name)) \cup
                   {[name |-> backup_name, kind |-> "file", content |-> f.content,
                     mtime |-> f.mtime, seq |-> seq, origin |-> t]}]
    ELSE IF f.kind = "dir" THEN
        IF EntryNamed(st, backup_name) # {}
        THEN [ok |-> FALSE, store |-> st]
        ELSE [ok |-> TRUE,
              store |-> st \cup
                   {[name |-> backup_name, kind |-> "dir", content |-> f.content,
                     mtime |-> f.mtime, seq |-> seq, origin |-> t]}]
    ELSE [ok |-> FALSE, store |-> st]

\* BackupManager._find_latest_backup: the directories whose name starts with
\* target.name; max() by st_mtime, and among equal mtimes whichever iterdir
\* lists first.  Result: the set of entries the call can return ({} for None).
find_latest_backup(st, t) ==
    LET candidates == {e \in st : e.kind = "dir" /\ StartsWith(e.name, TargetName(t))}
    IN {e \in candidates : \A o \in candidates : o.mtime <= e.mtime}

\* BackupManager.rollback, after a backup was found: delete the target, then
\* copy the backup over it (copy2 / copytree keep the backup's mtime).
\* failAt is where an OSError strikes: "none", "delete" or "copy".
restore_from(f, backup, failAt) ==
    IF failAt = "delete" THEN [ok |-> FALSE, file |-> f]
    ELSE IF failAt = "copy"
    THEN [ok |-> FALSE, file |-> [kind |-> "missing", content |-> <<>>, mtime |-> 0]]
    ELSE [ok |-> TRUE,
          file |-> [kind |-> backup.kind, content |-> backup.content,
                    mtime |-> backup.mtime]]

\* BackupManager.rollback with no backup found reporting success (a silent no-op)
rollback_silent(st, f, t, failAt) ==
    LET found == find_latest_backup(st, t)
    IN IF found = {}
       THEN {[ok |-> TRUE, file |-> f, path |-> NoPath, fault |-> FALSE]}
       ELSE {[ok |-> restore_from(f, backup, failAt).ok,
              file |-> restore_from(f, backup, failAt).file,
              path |-> backup.name, fault |-> failAt # "none"] : backup \in found}

\* BackupManager.rollback: False when _find_latest_backup returns None, else the
\* restore.  Result: the outcomes the call can have, [ok, file, path, fault].
rollback(st, f, t, failAt) ==
    LET found == find_latest_backup(st, t)
    IN IF found = {}
       THEN {[ok |-> FALSE, file |-> f, path |-> NoPath, fault |-> FALSE]}
       ELSE {[ok |-> restore_from(f, backup, failAt).ok,
              file |-> restore_from(f, backup, failAt).file,
              path |-> backup.name, fault |-> failAt # "none"] : backup \in found}

\* what a BackupManager call hands its caller: the exception that leaves it
\* ("" when it returns) and the value it returns
Returned(op, value) == [op |-> op, raised |-> "", value |-> value]
Raised(op, exception) == [op |-> op, raised |-> exception, value |-> {}]

\* BackupManager.list_backups(target), target "None" for no target: the
\* metadata of the directories of backup_dir that have a readable metadata
\* file, as a set (the list is this set sorted by created_at).  iterdir is
\* called outside any try: dirFail is backup_dir missing or unreadable.
\* unreadable are the metadata files whose open or json.load fails.
list_backups(st, m, target, dirFail, unreadable) ==
    IF dirFail THEN Raised("list_backups", "OSError")
    ELSE Returned("list_backups",
            {[original_path |-> r.original_path, backup_path |-> e.name,
              created_at |-> r.created_at] :
                <<e, r>> \in {p \in st \X m :
                                 /\ p[1].kind = "dir"
                                 /\ p[2].name = WithMetaSuffix(p[1].name)
                                 /\ p[2].name \notin unreadable
                                 /\ target = "None" \/ p[2].original_path = target}})

\* BackupManager.cleanup_all: rmtree of every directory of backup_dir, those
\* in failing excepted; iterdir is called outside any try.
\* Result: [ret, store].
cleanup_all(st, dirFail, failing) ==
    IF dirFail THEN [ret |-> Raised("cleanup_all", "OSError"), store |-> st]
    ELSE LET removed == {e \in st : e.kind = "dir" /\ e.name \notin failing}
         IN [ret |-> Returned("cleanup_all", {Cardinality(removed)}),
             store |-> st \ removed]

----------------------------------------------------------------------------
(* Validator. *)

\* the lexemes that are whitespace (\\s): a blank and a line break
Whitespace == {"ws", "nl"}

\* the first index from i on whose lexeme is not whitespace (\\s*)
SkipWs(code, i) ==
    LET rest == {j \in i..Len(code) : code[j] \notin Whitespace}
    IN IF rest = {} THEN Len(code) + 1
       ELSE CHOOSE j \in rest : \A k \in rest : j <= k

LexAt(code, i) == IF i >= 1 /\ i <= Len(code) THEN code[i] ELSE "<end>"

\* re.search(head \\s* \\( , code) for one of the dangerous_patterns
CallPattern(code, head) ==
    \E i \in 1..Len(code) :
        code[i] = head /\ LexAt(code, SkipWs(code, i + 1)) = "("

\* re.search(key \\s* = \\s* quoted, code): an assignment of a quoted literal
AssignPattern(code, keys, literals) ==
    \E i \in 1..Len(code) :
        /\ code[i] \in keys
        /\ LET eq == SkipWs(code, i + 1)
           IN /\ LexAt(code, eq) = "="
              /\ LexAt(code, SkipWs(code, eq + 1)) \in literals

\* quoted literals of 20 or more characters of [a-zA-Z0-9_-]
LongLiterals == {"'s20'"}
\* quoted literals of 8 or more characters that are no quote and no whitespace
Literals8 == {"'s8'", "'s20'"}
\* lexemes that start with a character of [a-zA-Z0-9_.-]
WordLexemes == {"x", "y", "eval", "exec", "__import__", "password", "api_key",
                "secret_key", "Bearer"}

\* Validator._contains_hardcoded_secrets
contains_hardcoded_secrets(code) ==
    \/ AssignPattern(code, {"api_key"}, LongLiterals)
    \/ AssignPattern(code, {"secret_key"}, LongLiterals)
    \/ AssignPattern(code, {"password"}, Literals8)
    \/ \E i \in 1..Len(code) :
          /\ code[i] = "Bearer"
          /\ LexAt(code, i + 1) \in Whitespace
          /\ LexAt(code, SkipWs(code, i + 1)) \in WordLexemes

\* the dangerous_patterns loop of Validator._check_safety_rules
contains_dangerous_call(code) ==
    \/ CallPattern(code, "eval")
    \/ CallPattern(code, "exec")
    \/ CallPattern(code, "__import__")

\* Validator._check_safety_rules; readFail is an OSError on reading the file
check_safety_rules(code, readFail) ==
    IF readFail THEN [check |-> "safety", passed |-> FALSE]
    ELSE IF contains_hardcoded_secrets(code) THEN [check |-> "safety", passed |-> FALSE]
    ELSE IF contains_dangerous_call(code) THEN [check |-> "safety", passed |-> FALSE]
    ELSE [check |-> "safety", passed |-> TRUE]

\* The outcomes of the checks that the model does not compute from the text:
\* syntax (compile), lint (Linter.analyze finds no issue), analysis (Analyzer
\* finds no critical security issue), read (the safety check can read the file).
CheckOutcomes == [syntax : BOOLEAN, lint : BOOLEAN, analysis : BOOLEAN, read : BOOLEAN]

\* validate with the safety check made optional like the two before it
validate_checks_safety_optional(code, vc, env) ==
    LET syntax_check == [check |-> "syntax", passed |-> env.syntax]
    IN IF ~ syntax_check.passed THEN <<syntax_check>>
       ELSE <<syntax_check>>
            \o (IF vc.run_linter_after
                THEN <<[check |-> "linting", passed |-> env.lint]>> ELSE <<>>)
            \o (IF vc.run_static_analysis
                THEN <<[check |-> "static_analysis", passed |-> env.analysis],
                       check_safety_rules(code, ~ env.read)>>
                ELSE <<>>)

\* Validator.validate, lines 46-63: the list of check results
validate_checks(code, vc, env) ==
    LET syntax_check == [check |-> "syntax", passed |-> env.syntax]
    IN IF ~ syntax_check.passed THEN <<syntax_check>>
       ELSE <<syntax_check>>
            \o (IF vc.run_linter_after
                THEN <<[check |-> "linting", passed |-> env.lint]>> ELSE <<>>)
            \o (IF vc.run_static_analysis
                THEN <<[check |-> "static_analysis", passed |-> env.analysis]>> ELSE <<>>)
            \o <<check_safety_rules(code, ~ env.read)>>

\* validate passing as soon as one check passed
validate_result_any(cs) == \E i \in 1..Len(cs) : cs[i].passed

\* Validator.validate, lines 51-52 and 65-73: all(check['passed'] for check in checks)
validate_result(cs) == \A i \in 1..Len(cs) : cs[i].passed

\* the temporary directory removed only when validate returns
cleanup_on_return_only(dirs, dir, rmFail, raised) ==
    IF rmFail \/ raised THEN dirs ELSE {d \in dirs : d.id # dir}

\* Validator.validate, lines 75-81: the finally block.  shutil.rmtree removes
\* the directory, and an OSError of rmtree is swallowed and leaves it there;
\* raised tells whether the try block is left by an exception.
finally_cleanup(dirs, dir, rmFail, raised) ==
    IF rmFail THEN dirs ELSE {d \in dirs : d.id # dir}

\* validate writing the candidate over the target instead
temp_file_in_place(dir, target) == [at |-> "target", dir |-> dir]

\* Validator.validate, line 42: the file the candidate is written to
temp_file(dir, target) == [at |-> "tmp", dir |-> dir]

\* Validator.apply_changes: logs "Changes validated and ready to apply" and
\* writes nothing
apply_changes(f, result) == f

----------------------------------------------------------------------------
(* Linter. *)

\* What the lint tools do, which the model does not compute: ruff is installed,
\* ruff reports issues, `ruff check --fix` and `ruff format` both exit 0, and the
\* text they leave in the file.
LintOutcomes == [ruff : BOOLEAN, issues : BOOLEAN, formatted : BOOLEAN,
                 fixed : StoreContents, touch : BOOLEAN]

\* Linter.analyze(target, auto_fix): [file, has_issues, auto_fixed]; file is the
\* target as the call leaves it.  Without ruff _generic_lint only reads.
lint_analyze(f, auto_fix, o, stamp) ==
    IF f.kind = "missing"
    THEN [file |-> f, has_issues |-> FALSE, auto_fixed |-> FALSE, wrote |-> FALSE]
    ELSE IF ~ o.ruff
    THEN [file |-> f, has_issues |-> o.issues, auto_fixed |-> FALSE, wrote |-> FALSE]
    ELSE LET wrote == auto_fix /\ o.fixed # f.content
             auto_fixed == auto_fix /\ o.formatted
         IN [file |-> IF wrote
                      THEN [kind |-> f.kind, content |-> o.fixed,
                            mtime |-> IF f.kind = "file" \/ o.touch THEN stamp ELSE f.mtime]
                      ELSE f,
             has_issues |-> o.issues \/ auto_fixed,
             auto_fixed |-> auto_fixed,
             wrote |-> wrote]

----------------------------------------------------------------------------
(* Refactorer. *)

NoError == [kind |-> "none", attempts |-> 0, last |-> "None"]
NoResult == [success |-> FALSE, changes_made |-> 0, refactored_code |-> <<>>,
             error |-> NoError]

\* the exceptions a provider call raises
ProviderErrors == {"timeout", "api error"}

\* the loop running once more than max_retries
retry_continues_once_more(n, max_retries) == n <= max_retries

\* Refactorer._call_ai_with_retry: `for attempt in range(max_retries)`
retry_continues(n, max_retries) == n < max_retries

\* Refactorer._call_ai_with_retry, line 198: the exception raised after the loop
retries_exhausted(max_retries, last) ==
    [kind |-> "ai", attempts |-> max_retries, last |-> last]

\* Refactorer._refactor_file, lines 83-93: the exception of _call_ai_with_retry
\* is caught and becomes a failed RefactorResult; raised says whether it leaves
\* _refactor_file instead.
on_ai_failure(e) ==
    [raised |-> FALSE,
     result |-> [success |-> FALSE, changes_made |-> 0, refactored_code |-> <<>>,
                 error |-> e]]

\* Refactorer._refactor_file, line 72:
\* `if not analysis.has_issues and not lint.has_issues`
short_circuits(analysis_has_issues_, lint_has_issues_) ==
    ~ analysis_has_issues_ /\ ~ lint_has_issues_

\* Refactorer._refactor_file, lines 59-79: the read error and the short circuit;
\* "call" when the provider is to be asked
refactor_file_start(f, analysis_has_issues_, lint_has_issues_, readFail) ==
    IF readFail
    THEN [next |-> "return",
          result |-> [success |-> FALSE, changes_made |-> 0, refactored_code |-> <<>>,
                      error |-> [kind |-> "read", attempts |-> 0, last |-> "None"]]]
    ELSE IF short_circuits(analysis_has_issues_, lint_has_issues_)
    THEN [next |-> "return",
          result |-> [success |-> TRUE, changes_made |-> 0,
                      refactored_code |-> f.content, error |-> NoError]]
    ELSE [next |-> "call", result |-> NoResult]

\* str.splitlines: the lines of a text, "nl" being the line break
SplitLines(code) ==
    LET starts == {a \in 1..Len(code) : a = 1 \/ code[a - 1] = "nl"}
        EndOf(a) ==
            LET nls == {j \in a..Len(code) : code[j] = "nl"}
            IN IF nls = {} THEN Len(code) + 1
               ELSE CHOOSE j \in nls : \A k \in nls : j <= k
    IN {SubSeq(code, a, EndOf(a) - 1) : a \in starts}

\* Refactorer._estimate_changes: the size of the symmetric difference of the two
\* texts' sets of lines
estimate_changes(original, refactored) ==
    LET orig_lines == SplitLines(original)
        ref_lines == SplitLines(refactored)
    IN Cardinality((orig_lines \ ref_lines) \cup (ref_lines \ orig_lines))

\* the lexemes that \\w matches
IsWord(t) == t \in WordLexemes

\* one match of ```(\\w*)\\n([\\s\\S]*?)\\n``` that starts at index i of the response:
\* [found, from, to, code], code being group 2 and `to` the index of the closing
\* fence.  \\w* is greedy and must be followed by a line break; the lazy group
\* ends at the first line break that a fence follows.
FenceMatchAt(response, i) ==
    LET n == Len(response)
        nonword == {j \in (i + 1)..n : ~ IsWord(response[j])}
        j == IF nonword = {} THEN n + 1
             ELSE CHOOSE a \in nonword : \A b \in nonword : a <= b
        closes == {k \in (j + 1)..(n - 1) :
                      response[k] = "nl" /\ response[k + 1] = "fence"}
        k == CHOOSE a \in closes : \A b \in closes : a <= b
    IN IF i <= n /\ response[i] = "fence" /\ j <= n /\ response[j] = "nl" /\ closes # {}
       THEN [found |-> TRUE, from |-> i, to |-> k + 1,
             code |-> SubSeq(response, j + 1, k - 1)]
       ELSE [found |-> FALSE, from |-> i, to |-> i, code |-> <<>>]

\* re.findall(code_block_pattern, response): the matches from left to right,
\* each search starting after the end of the match before
RECURSIVE FindAllFrom(_, _)
FindAllFrom(response, pos) ==
    LET hits == {i \in pos..Len(response) : FenceMatchAt(response, i).found}
    IN IF hits = {} THEN <<>>
       ELSE LET i == CHOOSE a \in hits : \A b \in hits : a <= b
                m == FenceMatchAt(response, i)
            IN <<m>> \o FindAllFrom(response, m.to + 1)

\* str.strip(): leading and trailing whitespace removed
Strip(text) ==
    LET keep == {i \in 1..Len(text) : text[i] \notin Whitespace}
    IN IF keep = {} THEN <<>>
       ELSE SubSeq(text, CHOOSE a \in keep : \A b \in keep : a <= b,
                         CHOOSE a \in keep : \A b \in keep : b <= a)

\* the first match taken instead of the last
pick_first_match(matches) == matches[1]

\* Refactorer._extract_code, line 206: matches[-1]
pick_match(matches) == matches[Len(matches)]

\* Refactorer._extract_code
extract_code(response) ==
    LET matches == FindAllFrom(response, 1)
    IN IF matches # <<>> THEN pick_match(matches).code ELSE Strip(response)

\* Refactorer.refactor: a file's result as it is; a directory's is rebuilt by
\* _refactor_directory from its files' results (one code file here), without
\* their error.
refactor_return(kind, r) ==
    IF kind = "file" THEN r
    ELSE IF kind = "dir"
    THEN [success |-> r.success,
          changes_made |-> r.changes_made,
          refactored_code |-> IF r.success THEN r.refactored_code ELSE <<>>,
          error |-> NoError]
    ELSE [success |-> FALSE, changes_made |-> 0, refactored_code |-> <<>>,
          error |-> [kind |-> "invalid", attempts |-> 0, last |-> "None"]]

----------------------------------------------------------------------------
(* Analyzer: the syntax tree and the detectors.                             *)
(*                                                                          *)
(* A syntax tree is [parent, kind, line, ...]: its nodes are 1..Len(parent) *)
(* in the order ast.NodeVisitor.generic_visit reaches them (a node before   *)
(* its children, the children in source order), node 1 is the Module, and   *)
(* parent[i] is the node that holds node i.                                 *)

\* the nodes from i up to the root
RECURSIVE AncestorsOrSelf(_, _)
AncestorsOrSelf(parent, i) ==
    IF i = 0 THEN {} ELSE {i} \cup AncestorsOrSelf(parent, parent[i])

\* the parent sequences of the trees of n nodes: node i + 1 hangs below the
\* node before it or below one of that node's ancestors
RECURSIVE PreorderParents(_)
PreorderParents(n) ==
    IF n = 1 THEN {<<0>>}
    ELSE UNION {{Append(p, a) : a \in AncestorsOrSelf(p, n - 1)} :
                   p \in PreorderParents(n - 1)}

\* ast.iter_child_nodes(node), in order
Children(tree, i) ==
    SelectSeq([k \in 1..Len(tree.parent) |-> k], LAMBDA j : tree.parent[j] = i)

\* the node classes NestingAnalyzer has a visit_ method for
ControlKinds == {"If", "For", "While", "Try"}

\* _check_nesting going on with the depth it reached
leave_block_keeping_depth(depth) == depth

\* NestingAnalyzer._check_nesting, line 152: self.current_depth -= 1
leave_block(depth) == depth - 1

\* NestingAnalyzer.visit(node) with the analyzer's state st =
\* [current_depth, violations]: _check_nesting for the four control classes,
\* generic_visit for every other class
RECURSIVE NestingVisit(_, _, _, _)
RECURSIVE NestingVisitAll(_, _, _, _)
NestingVisit(tree, i, st, max_depth) ==
    IF tree.kind[i] \in ControlKinds
    THEN LET depth == st.current_depth + 1
             found == IF depth > max_depth
                      THEN Append(st.violations,
                                  [line |-> tree.line[i], depth |-> depth,
                                   node_type |-> tree.kind[i],
                                   type |-> "maintainability", severity |-> "warning"])
                      ELSE st.violations
             after == NestingVisitAll(tree, Children(tree, i),
                                      [current_depth |-> depth, violations |-> found],
                                      max_depth)
         IN [current_depth |-> leave_block(after.current_depth),
             violations |-> after.violations]
    ELSE NestingVisitAll(tree, Children(tree, i), st, max_depth)

\* NodeVisitor.generic_visit: the children one after the other
NestingVisitAll(tree, kids, st, max_depth) ==
    IF kids = <<>> THEN st
    ELSE NestingVisitAll(tree, Tail(kids),
                         NestingVisit(tree, Head(kids), st, max_depth), max_depth)

\* Analyzer._detect_deep_nesting: the violations it adds to self.issues
detect_deep_nesting(tree, max_depth) ==
    NestingVisit(tree, 1, [current_depth |-> 0, violations |-> <<>>], max_depth).violations

\* the node classes LengthAnalyzer has a visit_ method for
FunctionKinds == {"FunctionDef", "AsyncFunctionDef"}

\* the length counted without the function's first line
function_length_exclusive(lineno, end_lineno) == end_lineno - lineno

\* LengthAnalyzer._check_function, line 183: length = end_line - node.lineno + 1
function_length(lineno, end_lineno) == end_lineno - lineno + 1

\* LengthAnalyzer.visit(node) with the violations found so far:
\* _check_function for the two function classes, then generic_visit; only
\* generic_visit for every other class
RECURSIVE LengthVisit(_, _, _, _)
RECURSIVE LengthVisitAll(_, _, _, _)
LengthVisit(tree, i, violations, max_lines) ==
    LET length == function_length(tree.line[i], tree.end_lineno[i])
        found == IF tree.kind[i] \in FunctionKinds /\ length > max_lines
                 THEN Append(violations,
                             [line |-> tree.line[i], function_name |-> tree.name[i],
                              function_length |-> length,
                              type |-> "maintainability", severity |-> "warning"])
                 ELSE violations
    IN LengthVisitAll(tree, Children(tree, i), found, max_lines)

LengthVisitAll(tree, kids, violations, max_lines) ==
    IF kids = <<>> THEN violations
    ELSE LengthVisitAll(tree, Tail(kids),
                        LengthVisit(tree, Head(kids), violations, max_lines), max_lines)

\* Analyzer._detect_long_functions: the violations it adds to self.issues
detect_long_functions(tree, max_lines) == LengthVisit(tree, 1, <<>>, max_lines)

\* the binding's line kept from the first binding of the name
record_first_binding(assignments, name, line) ==
    IF name \in DOMAIN assignments THEN assignments
    ELSE [n \in DOMAIN assignments \cup {name} |->
             IF n = name THEN line ELSE assignments[n]]

\* SymbolCollector: self.assignments[name] = node.lineno
record_binding(assignments, name, line) ==
    [n \in DOMAIN assignments \cup {name} |-> IF n = name THEN line ELSE assignments[n]]

\* the node classes that bind their name: visit_FunctionDef (to which
\* visit_AsyncFunctionDef hands over), visit_ClassDef, and visit_Name for a
\* Name in Store context
BindingKinds == {"FunctionDef", "AsyncFunctionDef", "ClassDef", "NameStore"}

\* SymbolCollector.visit(node) with the collector's state st =
\* [defined_names, used_names, assignments].  visit_Name does not go on to
\* children; the other visit_ methods and every other class do.
RECURSIVE SymbolVisit(_, _, _)
RECURSIVE SymbolVisitAll(_, _, _)
SymbolVisit(tree, i, st) ==
    LET name == tree.name[i]
        kind == tree.kind[i]
    IN IF kind \in {"FunctionDef", "AsyncFunctionDef", "ClassDef"}
       THEN SymbolVisitAll(tree, Children(tree, i),
                [defined_names |-> st.defined_names \cup {name},
                 used_names |-> st.used_names,
                 assignments |-> record_binding(st.assignments, name, tree.line[i])])
       ELSE IF kind = "NameStore"
       THEN [defined_names |-> st.defined_names \cup {name},
             used_names |-> st.used_names,
             assignments |-> record_binding(st.assignments, name, tree.line[i])]
       ELSE IF kind = "NameLoad"
       THEN [defined_names |-> st.defined_names,
             used_names |-> st.used_names \cup {name},
             assignments |-> st.assignments]
       ELSE IF kind = "NameDel"
       THEN st
       ELSE SymbolVisitAll(tree, Children(tree, i), st)

SymbolVisitAll(tree, kids, st) ==
    IF kids = <<>> THEN st
    ELSE SymbolVisitAll(tree, Tail(kids), SymbolVisit(tree, Head(kids), st))

\* the loop `for name in unused`, lines 243-252: one issue for each name, in
\* the order the set hands them out
RECURSIVE DeadNameIssues(_, _)
DeadNameIssues(unused, assignments) ==
    IF unused = {} THEN <<>>
    ELSE LET name == CHOOSE n \in unused : TRUE
         IN (IF name \in DOMAIN assignments
             THEN <<[line |-> assignments[name], name |-> name,
                     type |-> "maintainability", severity |-> "info"]>>
             ELSE <<>>)
            \o DeadNameIssues(unused \ {name}, assignments)

\* Analyzer._detect_dead_code: the issues it adds to self.issues
detect_dead_code(tree) ==
    LET collector == SymbolVisit(tree, 1, [defined_names |-> {}, used_names |-> {},
                                           assignments |-> <<>>])
    IN DeadNameIssues(collector.defined_names \ collector.used_names,
                      collector.assignments)

\* a call named eval or exec, whatever its func is
eval_exec_by_any_func(tree, i) ==
    tree.kind[i] = "Call" /\ tree.name[i] \in {"eval", "exec"}

\* visit_Call: isinstance(node.func, ast.Name) and node.func.id in ('eval', 'exec')
eval_exec_by_name(tree, i) ==
    tree.kind[i] = "Call" /\ tree.func[i] = "Name" /\ tree.name[i] \in {"eval", "exec"}

\* SecurityAnalyzer.visit_Call, visit_Import and visit_ImportFrom: the
\* violations the node adds.  The children of a Call are its arguments; an
\* Import has one alias, whose name is the node's name, and the name of an
\* ImportFrom is its module.
SecurityViolationsAt(tree, i) ==
    LET args == Children(tree, i)
        binops == SelectSeq(args, LAMBDA a : tree.kind[a] = "BinOp")
    IN IF tree.kind[i] = "Call"
       THEN (IF eval_exec_by_name(tree, i)
             THEN <<[line |-> tree.line[i],
                     message |-> "Dangerous use of eval/exec detected",
                     type |-> "security", severity |-> "critical"]>>
             ELSE <<>>)
            \o (IF tree.func[i] = "Attribute" /\ tree.name[i] = "execute"
                THEN [k \in 1..Len(binops) |->
                        [line |-> tree.line[i],
                         message |-> "Potential SQL injection - use parameterized queries",
                         type |-> "security", severity |-> "critical"]]
                ELSE <<>>)
       ELSE IF tree.kind[i] \in {"Import", "ImportFrom"}
                 /\ tree.name[i] \in {"pickle", "cPickle"}
       THEN <<[line |-> tree.line[i],
               message |-> "pickle module can execute arbitrary code",
               type |-> "security", severity |-> "warning"]>>
       ELSE <<>>

\* SecurityAnalyzer.visit(node): every visit_ method ends with generic_visit
RECURSIVE SecurityVisit(_, _)
RECURSIVE SecurityVisitAll(_, _)
SecurityVisit(tree, i) ==
    SecurityViolationsAt(tree, i) \o SecurityVisitAll(tree, Children(tree, i))

SecurityVisitAll(tree, kids) ==
    IF kids = <<>> THEN <<>>
    ELSE SecurityVisit(tree, Head(kids)) \o SecurityVisitAll(tree, Tail(kids))

\* Analyzer._detect_security_issues: the issues it adds to self.issues
detect_security_issues(tree) == SecurityVisit(tree, 1)

\* a key that a JSON object does not hold
Missing == "<missing>"

\* dict.get(key, default)
Get(value, default) == IF value = Missing THEN default ELSE value

\* a line number that a JSON object does not hold
MissingLine == 0

\* issue.get('line_number', 1)
GetLine(value) == IF value = MissingLine THEN 1 ELSE value

\* Analyzer._analyze_with_bandit.  The run of the tool is its outcome:
\* the exception subprocess.run raises, or the stdout it hands back, which is
\* empty, not JSON, or a JSON value [type, results_type, results].  The
\* exceptions the method does not catch leave it.
analyze_with_bandit(outcome) ==
    IF outcome.kind \in {"TimeoutExpired", "FileNotFoundError", "OSError"}
    THEN [raised |-> "", issues |-> <<>>]
    ELSE IF outcome.kind = "no_stdout"
    THEN [raised |-> "", issues |-> <<>>]
    ELSE IF outcome.kind = "JSONDecodeError"
    THEN [raised |-> "", issues |-> <<>>]
    ELSE IF outcome.json.type # "dict"
    THEN [raised |-> "AttributeError", issues |-> <<>>]   \* bandit_data.get
    ELSE IF outcome.json.results_type = "missing"
    THEN [raised |-> "", issues |-> <<>>]
    ELSE IF outcome.json.results_type # "list"
    THEN [raised |-> "TypeError", issues |-> <<>>]        \* for issue in results
    ELSE LET results == outcome.json.results
             bad == {k \in 1..Len(results) : results[k].type # "dict"}
             upto == IF bad = {} THEN Len(results)
                     ELSE (CHOOSE k \in bad : \A j \in bad : k <= j) - 1
         IN [raised |-> IF bad = {} THEN "" ELSE "AttributeError",   \* issue.get
             issues |-> [k \in 1..upto |->
                           [line |-> GetLine(results[k].line_number),
                            message |-> Get(results[k].issue_text, "Security issue detected"),
                            type |-> "security",
                            severity |-> Get(results[k].issue_severity, "warning")]]]

\* AnalyzerConfig.max_nesting_depth, max_cyclomatic_complexity and
\* max_function_lines
DefaultMaxNestingDepth == 4
DefaultMaxCyclomaticComplexity == 10
DefaultMaxFunctionLines == 50

\* Analyzer._analyze_with_radon: the radon_data it returns, as the sequence of
\* the dict's values.  The run of the tool is its outcome, as for bandit; a
\* JSON value is [type, values], each value [type, funcs] and each func
\* [type, name, complexity_type, complexity, loc].
analyze_with_radon(outcome) ==
    IF outcome.kind \in {"TimeoutExpired", "FileNotFoundError", "OSError"} THEN <<>>
    ELSE IF outcome.kind \in {"returncode", "no_stdout", "JSONDecodeError"} THEN <<>>
    ELSE IF outcome.json.type # "dict" THEN <<>>
    ELSE LET values == outcome.json.values
             taken == {k \in 1..Len(values) :
                          \/ values[k].type = "list" /\ values[k].funcs # <<>>
                          \/ values[k].type = "dict"}
         IN IF taken = {}
            THEN [k \in 1..Len(values) |->
                    [type |-> values[k].type, name |-> Missing,
                     complexity_type |-> "missing", complexity |-> 0, loc |-> 0]]
            ELSE LET first == values[CHOOSE k \in taken : \A j \in taken : k <= j]
                 IN IF first.type = "list"
                    THEN SelectSeq(first.funcs,
                                   LAMBDA f : f.type = "dict" /\ f.name # Missing)
                    ELSE first.funcs

\* Analyzer._detect_complexity_from_radon: the issues it adds to self.issues,
\* and the TypeError of comparing a score that is not a number
RECURSIVE detect_complexity_from_radon(_)
detect_complexity_from_radon(radon_data) ==
    IF radon_data = <<>> THEN [raised |-> "", issues |-> <<>>]
    ELSE LET details == Head(radon_data)
             score == IF details.complexity_type = "missing" THEN 0 ELSE details.complexity
             rest == detect_complexity_from_radon(Tail(radon_data))
             found == (IF score > DefaultMaxCyclomaticComplexity
                       THEN <<[line |-> 1, type |-> "complexity", severity |-> "warning"]>>
                       ELSE <<>>)
                      \o (IF details.loc > DefaultMaxFunctionLines
                          THEN <<[line |-> 1, type |-> "maintainability",
                                  severity |-> "warning"]>>
                          ELSE <<>>)
         IN IF details.type # "dict" THEN rest
            ELSE IF details.complexity_type = "str"
            THEN [raised |-> "TypeError", issues |-> <<>>]
            ELSE [raised |-> rest.raised,
                  issues |-> IF rest.raised # "" THEN <<>> ELSE found \o rest.issues]

\* the shared shape of an issue
AsIssues(violations) ==
    [k \in 1..Len(violations) |->
        [line |-> violations[k].line, type |-> violations[k].type,
         severity |-> violations[k].severity]]

\* an AnalysisResult, with the steps that ran to make it
AnalysisOf(raised, has_issues, issue_count, by_severity, by_type, issues, ran) ==
    [raised |-> raised, has_issues |-> has_issues, issue_count |-> issue_count,
     issues_by_severity |-> by_severity, issues_by_type |-> by_type,
     security_issues |-> SelectSeq(issues, LAMBDA i : i.type = "security"),
     code_smells |-> SelectSeq(issues, LAMBDA i : i.type # "security"),
     ran |-> ran]

\* what leaves the method when it raises
AnalysisRaised(exception, ran) ==
    AnalysisOf(exception, FALSE, 0, <<>>, <<>>, <<>>, ran)

\* Analyzer._analyze_python_file.  in.read is how open/read ends, in.parse
\* how ast.parse ends (the tree, a SyntaxError with its lineno, 0 for None, or
\* the RecursionError of a source nested too deep), in.radon and in.bandit the
\* runs of the two tools.
analyze_python_file(in) ==
    IF in.read = "OSError"
    THEN AnalysisOf("", TRUE, 1,
                    [k \in {"error"} |-> <<[line |-> 1, type |-> "io",
                                            severity |-> Missing]>>],
                    <<>>, <<>>, <<>>)
    ELSE IF in.read = "UnicodeDecodeError"
    THEN AnalysisRaised("UnicodeDecodeError", <<>>)
    ELSE IF in.parse.kind = "SyntaxError"
    THEN AnalysisOf("", TRUE, 1,
                    [k \in {"error"} |->
                        <<[line |-> IF in.parse.lineno = 0 THEN 1 ELSE in.parse.lineno,
                           type |-> "syntax", severity |-> Missing]>>],
                    [k \in {"syntax"} |-> <<>>],
                    <<>>, <<>>)
    ELSE IF in.parse.kind = "RecursionError"
    THEN AnalysisRaised("RecursionError", <<>>)
    ELSE LET tree == in.parse.tree
             detected ==
                AsIssues(detect_deep_nesting(tree, DefaultMaxNestingDepth))
                \o AsIssues(detect_long_functions(tree, DefaultMaxFunctionLines))
                \o AsIssues(detect_dead_code(tree))
                \o AsIssues(detect_security_issues(tree))
             detectors == <<"nesting", "length", "dead_code", "security">>
             radon_data == analyze_with_radon(in.radon)
             complexity == detect_complexity_from_radon(radon_data)
             bandit == analyze_with_bandit(in.bandit)
             issues == detected \o complexity.issues \o AsIssues(bandit.issues)
         IN IF complexity.raised # ""
            THEN AnalysisRaised(complexity.raised, detectors \o <<"radon">>)
            ELSE IF bandit.raised # ""
            THEN AnalysisRaised(bandit.raised, detectors \o <<"radon", "bandit">>)
            ELSE AnalysisOf("", Len(issues) > 0, Len(issues),
                            [k \in {issues[j].severity : j \in 1..Len(issues)} |->
                                SelectSeq(issues, LAMBDA i : i.severity = k)],
                            [k \in {issues[j].type : j \in 1..Len(issues)} |->
                                SelectSeq(issues, LAMBDA i : i.type = k)],
                            issues, detectors \o <<"radon", "bandit">>)

\* Analyzer._analyze_js_file
analyze_js_file == AnalysisOf("", FALSE, 0, <<>>, <<>>, <<>>, <<>>)

\* Analyzer._analyze_file for a file [suffix, in] of a directory
analyze_file(f) ==
    IF f.suffix = "py" THEN analyze_python_file(f.in) ELSE analyze_js_file

\* the loop of _analyze_directory: all_issues after the files, or the
\* exception that left _analyze_file
RECURSIVE gather_issues(_, _)
gather_issues(files, all_issues) ==
    IF files = <<>> THEN [raised |-> "", issues |-> all_issues]
    ELSE LET result == analyze_file(Head(files))
         IN IF result.raised # ""
            THEN [raised |-> result.raised, issues |-> <<>>]
            ELSE gather_issues(Tail(files),
                               all_issues \o result.code_smells \o result.security_issues)

\* Analyzer._analyze_directory on the files _collect_code_files hands it
analyze_directory(files) ==
    LET gathered == gather_issues(files, <<>>)
    IN IF gathered.raised # "" THEN AnalysisRaised(gathered.raised, <<>>)
       ELSE AnalysisOf("", Len(gathered.issues) > 0, Len(gathered.issues), <<>>, <<>>,
                       gathered.issues, <<>>)

----------------------------------------------------------------------------
(* Linter._lint_with_ruff and what it falls back to. *)

\* content.split('\n'): the lines in order, the last one empty when the text
\* ends with a newline
RECURSIVE LinesOf(_)
LinesOf(content) ==
    LET nls == {j \in 1..Len(content) : content[j] = "nl"}
    IN IF nls = {} THEN <<content>>
       ELSE LET j == CHOOSE a \in nls : \A b \in nls : a <= b
            IN <<SubSeq(content, 1, j - 1)>> \o LinesOf(SubSeq(content, j + 1, Len(content)))

\* a LintResult
LintOf(success, has_issues, issues, auto_fixed) ==
    [raised |-> "", success |-> success, has_issues |-> has_issues,
     issues |-> issues, auto_fixed |-> auto_fixed]

\* what the loop of _generic_lint adds for line i
GenericIssuesAt(line, i, max_len) ==
    (IF Len(line) > max_len
     THEN <<[tool |-> "generic", line |-> i, message |-> "Line exceeds"]>>
     ELSE <<>>)
    \o (IF line # <<>> /\ line[Len(line)] \in Whitespace
        THEN <<[tool |-> "generic", line |-> i, message |-> "Trailing whitespace"]>>
        ELSE <<>>)

RECURSIVE GenericIssuesFrom(_, _, _)
GenericIssuesFrom(lines, i, max_len) ==
    IF i > Len(lines) THEN <<>>
    ELSE GenericIssuesAt(lines[i], i, max_len) \o GenericIssuesFrom(lines, i + 1, max_len)

\* Linter._generic_lint
generic_lint(content, read, max_len) ==
    IF read = "OSError"
    THEN LintOf(FALSE, FALSE, <<[tool |-> Missing, line |-> 0, message |-> "error"]>>, <<>>)
    ELSE LET lines == LinesOf(content)
             issues ==
                GenericIssuesFrom(lines, 1, max_len)
                \o (IF content # <<>> /\ content[Len(content)] # "nl"
                    THEN <<[tool |-> "generic", line |-> Len(lines),
                            message |-> "No newline at end of file"]>>
                    ELSE <<>>)
         IN LintOf(TRUE, Len(issues) > 0, issues, <<>>)

\* Linter._parse_ruff_output.  A line of stdout is [blank, parts, numeric,
\* error]: whether it is blank, how many parts its colons split it in, whether
\* the second and third part are integers, and whether it holds the word
\* "error".
RECURSIVE parse_ruff_output(_)
parse_ruff_output(stdout) ==
    IF stdout = <<>> THEN <<>>
    ELSE LET line == Head(stdout)
         IN (IF line.blank \/ line.parts < 4 THEN <<>>
             ELSE IF line.numeric
             THEN <<[tool |-> "ruff", line |-> 1, message |-> "ruff"]>>
             ELSE IF ~ line.error
             THEN <<[tool |-> Missing, line |-> 0, message |-> "raw"]>>
             ELSE <<>>)
            \o parse_ruff_output(Tail(stdout))

\* Linter._lint_with_ruff.  in.version is how `ruff --version` ends, in.check
\* how `ruff check` ends, in.format how `ruff format` ends.
lint_with_ruff(in) ==
    IF in.version # "ok"
    THEN generic_lint(in.content, in.read, in.max_line_length)
    ELSE IF in.check.kind = "TimeoutExpired"
              \/ (in.check.kind = "ran" /\ in.auto_fix /\ in.check.returncode = 0
                    /\ in.format = "TimeoutExpired")
    THEN LintOf(FALSE, FALSE,
                <<[tool |-> Missing, line |-> 0, message |-> "Linting timeout"]>>, <<>>)
    ELSE IF in.check.kind = "OSError"
    THEN LintOf(FALSE, FALSE, <<[tool |-> Missing, line |-> 0, message |-> "error"]>>, <<>>)
    ELSE LET issues == parse_ruff_output(in.check.stdout)
             auto_fixed == IF in.auto_fix /\ in.check.returncode = 0 /\ in.format = "ok"
                           THEN <<"formatting">> ELSE <<>>
         IN LintOf(in.check.returncode = 0,
                   Len(issues) > 0 \/ Len(auto_fixed) > 0, issues, auto_fixed)

----------------------------------------------------------------------------
(* CodeJanitorCLI.run_clean. *)

\* run_clean, lines 108 and 134: what follows the analysis
phase3(has_issues, dry_run) ==
    IF has_issues /\ ~ dry_run THEN "refactor"
    ELSE IF dry_run /\ has_issues THEN "preview"
    ELSE "report"

\* run_clean, lines 119-124 and 142-145: what follows the refactoring
after_refactor(success, dry_run) ==
    IF dry_run THEN "report"
    ELSE IF ~ success THEN "fail"
    ELSE "validate"

\* run_clean applying whatever validate returned
after_validate_always_apply(passed) == "apply"

\* run_clean, lines 126-133: what follows the validation
after_validate(passed) == IF passed THEN "apply" ELSE "rollback"

----------------------------------------------------------------------------
(* The Snapshot Store driven directly: create_backup and rollback calls,   *)
(* with the operator editing targets and the clock advancing in between.   *)

\* Config(): the defaults of AIConfig and ValidatorConfig
DefaultConfig == [max_retries |-> 3, max_validation_retries |-> 2,
                  run_linter_after |-> TRUE, run_static_analysis |-> TRUE]

\* the state of a call before it has done anything
\* the callers that may be inside Validator.validate of one Validator object
Invocations == {1, 2}

\* none of them has called validate
NoCalls == [i \in Invocations |-> [pc |-> "idle", dir |-> 0, temp_file |-> 0]]

IdleCall ==
    /\ run = [target |-> "file", dry_run |-> FALSE]
    /\ lint_results = [has_issues |-> FALSE, auto_fixed |-> FALSE]
    /\ analysis_has_issues = FALSE
    /\ attempt = 0
    /\ last_error = "None"
    /\ file_result = NoResult
    /\ validation_passed = FALSE
    /\ checks = <<>>
    /\ tmp = {}
    /\ temp_dir = 0
    /\ nTmp = 0
    /\ calls = NoCalls
    /\ exit_code = -1
    /\ events = <<>>

\* no function is under study
NotCalled == [done |-> FALSE, value |-> <<>>]
IdleFn == arg = <<>> /\ ret = NotCalled

\* no clean command has run yet
IdleClean == IdleCall /\ pc = "idle" /\ refactor_results = NoResult /\ IdleFn

\* BackupManager(backup_dir) on an empty backup directory
EmptyStore ==
    /\ fs = [t \in Targets |-> [kind |-> TargetKind(t), content |-> CodeOrig,
                                 mtime |-> IF t = "dir2" THEN 1 ELSE 0]]
    /\ store = {}
    /\ meta = {}
    /\ now = 0
    /\ mclock = 2
    /\ nCreates = 0
    /\ created = {}
    /\ nEdits = 0
    /\ lastOp = [op |-> "none", target |-> "file", ok |-> FALSE, path |-> NoPath,
                 fault |-> FALSE]

InitStore == EmptyStore /\ IdleClean /\ cfg = DefaultConfig

\* The operator (or a tool) rewrites a target.  Rewriting a file inside a
\* directory leaves the directory's own mtime alone; adding or removing an entry
\* changes it.
Edit(t, c, touch) ==
    /\ nEdits < MaxEdits
    /\ fs[t].kind # "missing"
    /\ c # fs[t].content
    /\ touch \/ fs[t].kind = "dir"
    /\ fs' = [fs EXCEPT ![t] = [kind |-> fs[t].kind, content |-> c,
                                mtime |-> IF touch THEN mclock ELSE fs[t].mtime]]
    /\ mclock' = IF touch THEN mclock + 1 ELSE mclock
    /\ nEdits' = nEdits + 1
    /\ lastOp' = [op |-> "edit", target |-> t, ok |-> TRUE, path |-> NoPath, fault |-> FALSE]
    /\ UNCHANGED <<store, meta, now, nCreates, created>>

\* BackupManager.create_backup(target), called dt seconds after the previous
\* BackupManager call
CreateBackup(t, dt, ioFail) ==
    /\ now' = now + dt
    /\ LET backup_name == BackupName(TargetName(t), now')
           r == copy_to_backup(store, t, fs[t], backup_name, nCreates + 1, ioFail)
       IN IF r.ok
          THEN /\ meta' = write_metadata(meta, backup_name, t, now')
               /\ store' \in cleanup_old_backups(r.store)
               /\ nCreates' = nCreates + 1
               /\ created' = created \cup {backup_name}
               /\ lastOp' = [op |-> "create_backup", target |-> t, ok |-> TRUE,
                             path |-> backup_name, fault |-> FALSE]
          ELSE /\ UNCHANGED <<store, meta, nCreates, created>>
               /\ lastOp' = [op |-> "create_backup", target |-> t, ok |-> FALSE,
                             path |-> NoPath, fault |-> ioFail]
    /\ UNCHANGED <<fs, mclock, nEdits>>

\* BackupManager.rollback(target)
Rollback(t, failAt) ==
    /\ \E r \in rollback(store, fs[t], t, failAt) :
          /\ fs' = [fs EXCEPT ![t] = r.file]
          /\ lastOp' = [op |-> "rollback", target |-> t, ok |-> r.ok, path |-> r.path,
                        fault |-> r.fault]
    /\ UNCHANGED <<store, meta, now, mclock, nCreates, created, nEdits>>

NextStore ==
    \/ \E t \in Targets : \E c \in StoreContents : \E touch \in BOOLEAN : Edit(t, c, touch)
    \/ /\ nCreates < MaxCreates
       /\ \E t \in Targets : \E dt \in {0, 1} : \E ioFail \in BOOLEAN :
            now + dt <= MaxClock /\ CreateBackup(t, dt, ioFail)
    \/ \E t \in Targets : \E failAt \in {"none", "delete", "copy"} : Rollback(t, failAt)

SpecStore == InitStore /\ [][NextStore /\ UNCHANGED <<cleanVars, fnVars>>]_vars

----------------------------------------------------------------------------
(* The four operations of BackupManager as their caller sees them: what     *)
(* each returns, or the exception that leaves it.                           *)

CreateBackupCall(t, dt, ioFail) ==
    /\ CreateBackup(t, dt, ioFail)
    /\ ret' = [done |-> TRUE,
               value |-> Returned("create_backup", {lastOp'.path})]
    /\ UNCHANGED arg

RollbackCall(t, failAt) ==
    /\ Rollback(t, failAt)
    /\ ret' = [done |-> TRUE, value |-> Returned("rollback", {lastOp'.ok})]
    /\ UNCHANGED arg

ListBackups(target, dirFail, unreadable) ==
    /\ ret' = [done |-> TRUE,
               value |-> list_backups(store, meta, target, dirFail, unreadable)]
    /\ UNCHANGED <<storeVars, arg>>

CleanupAll(dirFail, failing) ==
    /\ LET r == cleanup_all(store, dirFail, failing)
       IN /\ store' = r.store
          /\ ret' = [done |-> TRUE, value |-> r.ret]
    /\ lastOp' = [op |-> "cleanup_all", target |-> "file", ok |-> ~ dirFail,
                  path |-> NoPath, fault |-> dirFail \/ failing # {}]
    /\ UNCHANGED <<fs, meta, now, mclock, nCreates, created, nEdits, arg>>

NextStoreOps ==
    \/ /\ nCreates < MaxCreates
       /\ \E t \in Targets : \E dt \in {0, 1} : \E ioFail \in BOOLEAN :
            now + dt <= MaxClock /\ CreateBackupCall(t, dt, ioFail)
    \/ \E t \in Targets : \E failAt \in {"none", "delete", "copy"} : RollbackCall(t, failAt)
    \/ \E target \in Targets \cup {"None"} : \E dirFail \in BOOLEAN :
          \E unreadable \in SUBSET {r.name : r \in meta} :
             ListBackups(target, dirFail, unreadable)
    \/ \E dirFail \in BOOLEAN : \E failing \in SUBSET {e.name : e \in store} :
          CleanupAll(dirFail, failing)

SpecStoreOps == InitStore /\ [][NextStoreOps /\ UNCHANGED cleanVars]_vars

----------------------------------------------------------------------------
(* The Snapshot Store under a run of create_backup calls long enough to    *)
(* pass the retention limit, the targets being edited in between.          *)

NextRetention ==
    \/ \E t \in Targets : \E c \in StoreContents : \E touch \in BOOLEAN : Edit(t, c, touch)
    \/ /\ nCreates < MaxRetentionCreates
       /\ \E t \in Targets : \E dt \in {0, 1} : \E ioFail \in BOOLEAN :
            now + dt <= MaxRetentionClock /\ CreateBackup(t, dt, ioFail)

SpecRetention == InitStore /\ [][NextRetention /\ UNCHANGED <<cleanVars, fnVars>>]_vars

----------------------------------------------------------------------------
(* The clean command: CodeJanitorCLI.run_clean, step by step.              *)

InitClean ==
    /\ EmptyStore
    /\ IdleClean
    /\ cfg \in [max_retries : 0..MaxAiRetries,
                max_validation_retries : 0..MaxValidationRetries,
                run_linter_after : BOOLEAN, run_static_analysis : BOOLEAN]

Log(e) == events' = Append(events, e)

\* run_clean(target, dry_run) is entered
StartClean(t, dry) ==
    /\ pc = "idle"
    /\ run' = [target |-> t, dry_run |-> dry]
    /\ pc' = IF dry THEN "lint" ELSE "backup"
    /\ lint_results' = [has_issues |-> FALSE, auto_fixed |-> FALSE]
    /\ analysis_has_issues' = FALSE
    /\ attempt' = 0
    /\ last_error' = "None"
    /\ file_result' = NoResult
    /\ refactor_results' = NoResult
    /\ validation_passed' = FALSE
    /\ checks' = <<>>
    /\ exit_code' = -1
    /\ events' = <<>>
    /\ UNCHANGED <<storeVars, cfg, tmp, temp_dir, nTmp>>

\* lines 82-83: self.backup_manager.create_backup(target), its result dropped
CleanBackup(dt, ioFail) ==
    /\ pc = "backup"
    /\ now + dt <= MaxClock
    /\ CreateBackup(run.target, dt, ioFail)
    /\ Log(IF lastOp'.ok THEN "backup_ok" ELSE "backup_failed")
    /\ pc' = "lint"
    /\ UNCHANGED <<run, cfg, lint_results, analysis_has_issues, attempt, last_error,
                   file_result, refactor_results, validation_passed, checks, tmp,
                   temp_dir, nTmp, exit_code>>

\* lines 89-94: linter.analyze(target, auto_fix=not dry_run)
CleanLint(o) ==
    /\ pc = "lint"
    /\ LET r == lint_analyze(fs[run.target], ~ run.dry_run, o, mclock)
       IN /\ fs' = [fs EXCEPT ![run.target] = r.file]
          /\ mclock' = IF r.file.mtime = mclock THEN mclock + 1 ELSE mclock
          /\ lint_results' = [has_issues |-> r.has_issues, auto_fixed |-> r.auto_fixed]
          /\ Log(IF r.wrote THEN "lint_fix" ELSE "lint")
    /\ pc' = "analyze"
    /\ UNCHANGED <<store, meta, now, nCreates, created, nEdits, lastOp, run, cfg,
                   analysis_has_issues, attempt, last_error, file_result,
                   refactor_results, validation_passed, checks, tmp, temp_dir, nTmp,
                   exit_code>>

\* lines 98-108 and 134, 148-154: analyzer.analyze(target), then phase 3 or the
\* report and return 0
CleanAnalyze(has_issues) ==
    /\ pc = "analyze"
    /\ analysis_has_issues' = has_issues
    /\ LET next == phase3(has_issues \/ lint_results.has_issues, run.dry_run)
       IN IF next = "report"
          THEN pc' = "done" /\ exit_code' = 0
          ELSE pc' = "refactor" /\ UNCHANGED exit_code
    /\ UNCHANGED <<storeVars, run, cfg, lint_results, attempt, last_error, file_result,
                   refactor_results, validation_passed, checks, tmp, temp_dir, nTmp,
                   events>>

\* Refactorer.refactor up to the first provider call.  file_analysis, file_lint:
\* the has_issues of the AnalysisResult and of the LintResult that
\* _refactor_file gets (for a directory, after _extract_file_analysis and
\* _extract_file_lint; for a file, what run_clean passed in).
RefactorBegin(file_analysis, file_lint, readFail) ==
    /\ pc = "refactor"
    /\ fs[run.target].kind = "file" =>
          /\ file_analysis = analysis_has_issues
          /\ file_lint = lint_results.has_issues
    /\ fs[run.target].kind = "dir" =>
          /\ file_analysis => analysis_has_issues
          /\ file_lint => lint_results.has_issues
    /\ LET r == refactor_file_start(fs[run.target], file_analysis, file_lint, readFail)
       IN IF fs[run.target].kind = "missing"
          THEN /\ refactor_results' = refactor_return("missing", NoResult)
               /\ pc' = "refactored"
               /\ UNCHANGED file_result
          ELSE IF r.next = "return"
          THEN /\ file_result' = r.result
               /\ refactor_results' = refactor_return(fs[run.target].kind, r.result)
               /\ pc' = "refactored"
          ELSE /\ pc' = "ai_call"
               /\ UNCHANGED <<file_result, refactor_results>>
    /\ Log(IF pc' = "ai_call" THEN "prompt" ELSE "no_prompt")
    /\ attempt' = 0
    /\ last_error' = "None"
    /\ UNCHANGED <<storeVars, run, cfg, lint_results, analysis_has_issues,
                   validation_passed, checks, tmp, temp_dir, nTmp, exit_code>>

\* Refactorer._call_ai_with_retry: one pass of the loop that calls the provider
\* and gets a response, and _refactor_file, lines 95-104, which extracts the
\* code from it
AiCallOk(response) ==
    /\ pc = "ai_call"
    /\ retry_continues(attempt, cfg.max_retries)
    /\ LET code == extract_code(response)
       IN file_result' =
             [success |-> TRUE,
              changes_made |-> estimate_changes(fs[run.target].content, code),
              refactored_code |-> code, error |-> NoError]
    /\ refactor_results' = refactor_return(fs[run.target].kind, file_result')
    /\ Log("provider_ok")
    /\ pc' = "refactored"
    /\ UNCHANGED <<storeVars, run, cfg, lint_results, analysis_has_issues, attempt,
                   last_error, validation_passed, checks, tmp, temp_dir, nTmp,
                   exit_code>>

\* Refactorer._call_ai_with_retry: one pass of the loop in which the provider
\* raises e
AiCallFails(e) ==
    /\ pc = "ai_call"
    /\ retry_continues(attempt, cfg.max_retries)
    /\ last_error' = e
    /\ attempt' = attempt + 1
    /\ Log(e)
    /\ UNCHANGED <<storeVars, pc, run, cfg, lint_results, analysis_has_issues,
                   file_result, refactor_results, validation_passed, checks, tmp,
                   temp_dir, nTmp, exit_code>>

\* Refactorer._call_ai_with_retry leaves the loop and raises; _refactor_file
\* catches
AiExhausted ==
    /\ pc = "ai_call"
    /\ ~ retry_continues(attempt, cfg.max_retries)
    /\ LET r == on_ai_failure(retries_exhausted(cfg.max_retries, last_error))
       IN IF r.raised
          THEN /\ pc' = "crashed"
               /\ UNCHANGED <<file_result, refactor_results>>
          ELSE /\ file_result' = r.result
               /\ refactor_results' = refactor_return(fs[run.target].kind, r.result)
               /\ pc' = "refactored"
    /\ UNCHANGED <<storeVars, run, cfg, lint_results, analysis_has_issues, attempt,
                   last_error, validation_passed, checks, tmp, temp_dir, nTmp,
                   exit_code, events>>

\* lines 119-124 and 142-154: run_clean has the RefactorResult
CleanAfterRefactor ==
    /\ pc = "refactored"
    /\ LET next == after_refactor(refactor_results.success, run.dry_run)
       IN IF next = "report" THEN pc' = "done" /\ exit_code' = 0
          ELSE IF next = "fail" THEN pc' = "done" /\ exit_code' = 1
          ELSE pc' = "validate" /\ UNCHANGED exit_code
    /\ UNCHANGED <<storeVars, run, cfg, lint_results, analysis_has_issues, attempt,
                   last_error, file_result, refactor_results, validation_passed,
                   checks, tmp, temp_dir, nTmp, events>>

\* Validator.validate, lines 39-44: mkdtemp, and the candidate written to
\* temp_file; writeFail is open or write raising OSError, which leaves the try
\* block by an exception
ValidateBegin(writeFail) ==
    /\ pc = "validate"
    /\ nTmp' = nTmp + 1
    /\ temp_dir' = nTmp'
    /\ LET path == temp_file(nTmp', run.target)
           code == refactor_results.refactored_code
       IN IF writeFail
          THEN /\ tmp' = tmp \cup {[id |-> nTmp', content |-> <<>>]}
               /\ Log("validate_begin")
               /\ UNCHANGED <<fs, mclock>>
          ELSE IF path.at = "tmp"
          THEN /\ tmp' = tmp \cup {[id |-> nTmp', content |-> code]}
               /\ Log("validate_begin")
               /\ UNCHANGED <<fs, mclock>>
          ELSE /\ tmp' = tmp \cup {[id |-> nTmp', content |-> <<>>]}
               /\ fs' = [fs EXCEPT ![run.target] =
                            [kind |-> "file", content |-> code, mtime |-> mclock]]
               /\ mclock' = mclock + 1
               /\ Log("candidate_to_target")
    /\ pc' = IF writeFail THEN "validate_raising" ELSE "validating"
    /\ UNCHANGED <<store, meta, now, nCreates, created, nEdits, lastOp, run, cfg,
                   lint_results, analysis_has_issues, attempt, last_error, file_result,
                   refactor_results, validation_passed, checks, exit_code>>

\* the text validate's checks read back from temp_file
TempFileText ==
    LET path == temp_file(temp_dir, run.target)
    IN IF path.at = "tmp"
       THEN (CHOOSE d \in tmp : d.id = temp_dir).content
       ELSE fs[run.target].content

\* Validator.validate, lines 46-81: the checks, the result, and the finally
\* block that removes the temporary directory
ValidateFinish(env, rmFail) ==
    /\ pc = "validating"
    /\ checks' = validate_checks(TempFileText, cfg, env)
    /\ validation_passed' = validate_result(checks')
    /\ tmp' = finally_cleanup(tmp, temp_dir, rmFail, FALSE)
    /\ temp_dir' = 0
    /\ events' = events
                  \o (IF rmFail THEN <<"rmtree_failed">> ELSE <<>>)
                  \o <<IF validation_passed' THEN "validate_true" ELSE "validate_false">>
    /\ pc' = "validated"
    /\ UNCHANGED <<storeVars, run, cfg, lint_results, analysis_has_issues, attempt,
                   last_error, file_result, refactor_results, nTmp, exit_code>>

\* Validator.validate left by an exception: the write of the candidate failed,
\* or a check raised what it does not catch (compile raises ValueError on a
\* null byte).  The finally block runs, the exception leaves run_clean, and
\* main (cli.py, lines 369-377) exits with 1.
ValidateUnwind(rmFail) ==
    /\ pc \in {"validating", "validate_raising"}
    /\ tmp' = finally_cleanup(tmp, temp_dir, rmFail, TRUE)
    /\ temp_dir' = 0
    /\ events' = events
                  \o (IF rmFail THEN <<"rmtree_failed">> ELSE <<>>)
                  \o <<"validate_raised">>
    /\ pc' = "done"
    /\ exit_code' = 1
    /\ UNCHANGED <<storeVars, run, cfg, lint_results, analysis_has_issues, attempt,
                   last_error, file_result, refactor_results, validation_passed,
                   checks, nTmp>>

\* lines 126-129 and 148-154: validator.apply_changes(refactor_results), the
\* report, return 0
CleanApply ==
    /\ pc = "validated"
    /\ after_validate(validation_passed) = "apply"
    /\ LET f == apply_changes(fs[run.target], refactor_results)
       IN /\ fs' = [fs EXCEPT ![run.target] = f]
          /\ Log(IF f # fs[run.target] THEN "candidate_to_target" ELSE "apply")
    /\ pc' = "done"
    /\ exit_code' = 0
    /\ UNCHANGED <<store, meta, now, mclock, nCreates, created, nEdits, lastOp, run, cfg,
                   lint_results, analysis_has_issues, attempt, last_error, file_result,
                   refactor_results, validation_passed, checks, tmp, temp_dir, nTmp>>

\* lines 130-133: self.backup_manager.rollback(target), return 1
CleanRollback(failAt) ==
    /\ pc = "validated"
    /\ after_validate(validation_passed) = "rollback"
    /\ Rollback(run.target, failAt)
    /\ Log(IF lastOp'.path # NoPath THEN "restore" ELSE "rollback_no_backup")
    /\ pc' = "done"
    /\ exit_code' = 1
    /\ UNCHANGED <<run, cfg, lint_results, analysis_has_issues, attempt, last_error,
                   file_result, refactor_results, validation_passed, checks, tmp,
                   temp_dir, nTmp>>

NextClean ==
    \/ \E t \in Targets : \E dry \in BOOLEAN : StartClean(t, dry)
    \/ \E dt \in {0, 1} : \E ioFail \in BOOLEAN : CleanBackup(dt, ioFail)
    \/ \E o \in LintOutcomes : CleanLint(o)
    \/ \E has_issues \in BOOLEAN : CleanAnalyze(has_issues)
    \/ \E file_analysis \in BOOLEAN : \E file_lint \in BOOLEAN :
          \E readFail \in BOOLEAN : RefactorBegin(file_analysis, file_lint, readFail)
    \/ \E response \in Responses : AiCallOk(response)
    \/ \E e \in ProviderErrors : AiCallFails(e)
    \/ AiExhausted
    \/ CleanAfterRefactor
    \/ \E writeFail \in BOOLEAN : ValidateBegin(writeFail)
    \/ \E env \in CheckOutcomes : \E rmFail \in BOOLEAN : ValidateFinish(env, rmFail)
    \/ \E rmFail \in BOOLEAN : ValidateUnwind(rmFail)
    \/ CleanApply
    \/ \E failAt \in {"none", "delete", "copy"} : CleanRollback(failAt)

Spec == InitClean /\ [][NextClean /\ UNCHANGED <<fnVars, calls>>]_vars

\* run_clean is one thread of straight-line code: once entered, each step is
\* taken when the call it waits for returns or times out
SpecFair == Spec /\ WF_vars(NextClean /\ UNCHANGED <<fnVars, calls>>)

----------------------------------------------------------------------------
(* The check command: CodeJanitorCLI.run_check.                             *)

\* run_check(target): linter.analyze(target), with auto_fix left at its
\* default True, then analyzer.analyze(target), then 1 when issues were
\* counted and 0 otherwise.  lint_results.issues is not empty exactly when
\* the tool reported issues; the analysis only reads.
RunCheck(t, o, has_issues) ==
    /\ pc = "idle"
    /\ run' = [target |-> t, dry_run |-> FALSE]
    /\ LET r == lint_analyze(fs[t], TRUE, o, mclock)
       IN /\ fs' = [fs EXCEPT ![t] = r.file]
          /\ mclock' = IF r.file.mtime = mclock THEN mclock + 1 ELSE mclock
          /\ lint_results' = [has_issues |-> r.has_issues, auto_fixed |-> r.auto_fixed]
          /\ events' = <<IF r.wrote THEN "lint_fix" ELSE "lint">>
          /\ exit_code' = IF (r.has_issues /\ o.issues) \/ has_issues THEN 1 ELSE 0
    /\ analysis_has_issues' = has_issues
    /\ pc' = "checked"
    /\ UNCHANGED <<store, meta, now, nCreates, created, nEdits, lastOp, cfg, attempt,
                   last_error, file_result, refactor_results, validation_passed, checks,
                   tmp, temp_dir, nTmp>>

NextCheck == \E t \in Targets : \E o \in LintOutcomes : \E has_issues \in BOOLEAN :
                RunCheck(t, o, has_issues)

SpecCheck == InitClean /\ [][NextCheck /\ UNCHANGED <<fnVars, calls>>]_vars

----------------------------------------------------------------------------
(* Validator.validate on its own, called with every text up to MaxTextLen   *)
(* lexemes under every setting of the validator's flags.                    *)

Lexemes == {"x", "ws", "(", "=", "eval", "exec", "__import__", "password",
            "api_key", "secret_key", "'s7'", "'s8'", "'s20'", "Bearer"}

Texts == UNION {[1..n -> Lexemes] : n \in 0..MaxTextLen}

InitValidate ==
    /\ EmptyStore
    /\ IdleCall
    /\ pc = "validate"
    /\ IdleFn
    /\ refactor_results \in [success : {TRUE}, changes_made : {0},
                              refactored_code : Texts, error : {NoError}]
    /\ cfg \in [max_retries : {DefaultConfig.max_retries},
                max_validation_retries : {DefaultConfig.max_validation_retries},
                run_linter_after : BOOLEAN, run_static_analysis : BOOLEAN]

NextValidate ==
    \/ \E writeFail \in BOOLEAN : ValidateBegin(writeFail)
    \/ \E env \in CheckOutcomes : \E rmFail \in BOOLEAN : ValidateFinish(env, rmFail)
    \/ \E rmFail \in BOOLEAN : ValidateUnwind(rmFail)

SpecValidate == InitValidate /\ [][NextValidate /\ UNCHANGED <<fnVars, calls>>]_vars

----------------------------------------------------------------------------
(* Validator.validate called by several callers on one Validator object.    *)
(* The callers share the object's field temp_dir; each step below is one    *)
(* statement of validate, and the callers' steps interleave freely.         *)

DirExists(dirs, dir) == \E d \in dirs : d.id = dir

\* line 37: self.temp_dir = Path(tempfile.mkdtemp(prefix="janitor_")); mkdtemp
\* makes a directory no earlier call has made
EnterValidate(i) ==
    /\ calls[i].pc \in {"idle", "returned", "raised"}
    /\ nTmp < MaxValidateCalls
    /\ nTmp' = nTmp + 1
    /\ tmp' = tmp \cup {[id |-> nTmp', content |-> <<>>]}
    /\ temp_dir' = nTmp'
    /\ calls' = [calls EXCEPT ![i] = [pc |-> "entered", dir |-> nTmp', temp_file |-> 0]]

\* lines 40-42: temp_file = self.temp_dir / "refactored.py" reads the field again,
\* then the candidate is written there.  None / str raises TypeError, and open
\* raises FileNotFoundError where the directory is gone.
WriteCandidate(i, code) ==
    /\ calls[i].pc = "entered"
    /\ IF temp_dir # 0 /\ DirExists(tmp, temp_dir)
       THEN /\ tmp' = {d \in tmp : d.id # temp_dir} \cup {[id |-> temp_dir, content |-> code]}
            /\ calls' = [calls EXCEPT ![i].pc = "checking", ![i].temp_file = temp_dir]
       ELSE /\ tmp' = tmp
            /\ calls' = [calls EXCEPT ![i].pc = "raising", ![i].temp_file = temp_dir]
    /\ UNCHANGED <<temp_dir, nTmp>>

\* lines 44-73: the checks, each given the local temp_file
RunChecks(i) ==
    /\ calls[i].pc = "checking"
    /\ calls' = [calls EXCEPT ![i].pc = "finally"]
    /\ UNCHANGED <<tmp, temp_dir, nTmp>>

\* lines 75-81: the finally block, which removes whatever self.temp_dir names
\* now and clears the field; it does nothing where the field is None or the
\* directory is gone
LeaveValidate(i, rmFail) ==
    /\ calls[i].pc \in {"finally", "raising"}
    /\ IF temp_dir # 0 /\ DirExists(tmp, temp_dir)
       THEN /\ tmp' = finally_cleanup(tmp, temp_dir, rmFail, calls[i].pc = "raising")
            /\ temp_dir' = 0
       ELSE UNCHANGED <<tmp, temp_dir>>
    /\ calls' = [calls EXCEPT ![i].pc = IF calls[i].pc = "raising" THEN "raised"
                                         ELSE "returned"]
    /\ UNCHANGED nTmp

NextOverlap ==
    \E i \in Invocations :
        \/ EnterValidate(i)
        \/ \E code \in Candidates : WriteCandidate(i, code)
        \/ RunChecks(i)
        \/ \E rmFail \in BOOLEAN : LeaveValidate(i, rmFail)

SpecOverlap ==
    InitStore /\ [][NextOverlap /\ UNCHANGED <<storeVars, fnVars, pc, run, cfg,
                        lint_results, analysis_has_issues, attempt, last_error,
                        file_result, refactor_results, validation_passed, checks,
                        exit_code, events>>]_vars

----------------------------------------------------------------------------
(* Refactorer._extract_code on every response of up to MaxResponseLen       *)
(* lexemes: a fence, a line break, a word character, another character.     *)

\* "fence" is the three backquotes
ResponseLexemes == {"fence", "nl", "x", "("}

\* the function under study is about to be applied
InitFn ==
    /\ EmptyStore
    /\ IdleCall
    /\ pc = "idle"
    /\ refactor_results = NoResult
    /\ cfg = DefaultConfig
    /\ ret = NotCalled

InitExtract ==
    /\ InitFn
    /\ arg \in UNION {[1..n -> ResponseLexemes] : n \in 0..MaxResponseLen}

ExtractCode ==
    /\ ~ ret.done
    /\ ret' = [done |-> TRUE, value |-> extract_code(arg)]
    /\ UNCHANGED arg

NextExtract == ExtractCode

SpecExtract == InitExtract /\ [][NextExtract /\ UNCHANGED <<storeVars, cleanVars>>]_vars

----------------------------------------------------------------------------
(* Analyzer._detect_deep_nesting on every tree of up to MaxAstNodes nodes   *)
(* and on the six-level conditional, with every maximum up to               *)
(* MaxNestingDepth and the default one.                                     *)

NestingKinds == ControlKinds \cup {"FunctionDef"}

\* the trees of n nodes whose nodes below the Module are of the given kinds,
\* each node on a line of its own
TreesOf(n, kinds) ==
    {[parent |-> p, kind |-> <<"Module">> \o k, line |-> [i \in 1..n |-> i]] :
        p \in PreorderParents(n), k \in [1..(n - 1) -> kinds]}

\* if a: if b: if c: if d: if e: if f: pass
SixLevelConditional ==
    [parent |-> <<0, 1, 2, 3, 4, 5, 6>>,
     kind |-> <<"Module", "If", "If", "If", "If", "If", "If">>,
     line |-> <<1, 2, 3, 4, 5, 6, 7>>]

InitNesting ==
    /\ InitFn
    /\ arg \in ([tree : UNION {TreesOf(n, NestingKinds) : n \in 1..MaxAstNodes},
                  max_nesting_depth : 1..MaxNestingDepth]
                 \cup {[tree |-> SixLevelConditional,
                        max_nesting_depth |-> DefaultMaxNestingDepth]})

DetectDeepNesting ==
    /\ ~ ret.done
    /\ ret' = [done |-> TRUE,
               value |-> detect_deep_nesting(arg.tree, arg.max_nesting_depth)]
    /\ UNCHANGED arg

NextNesting == DetectDeepNesting

SpecNesting == InitNesting /\ [][NextNesting /\ UNCHANGED <<storeVars, cleanVars>>]_vars

----------------------------------------------------------------------------
(* Analyzer._detect_long_functions on every tree of up to MaxAstNodes nodes *)
(* of functions, async functions and classes, with every maximum up to      *)
(* MaxFunctionLines.                                                        *)

\* the nodes of the subtree of node i
Subtree(tree, i) == {j \in 1..Len(tree.parent) : i \in AncestorsOrSelf(tree.parent, j)}

\* ast.parse sets end_lineno to the last line of the node: here the line of the
\* last node below it
WithEndLines(tree) ==
    [parent |-> tree.parent, kind |-> tree.kind, line |-> tree.line,
     end_lineno |-> [i \in 1..Len(tree.parent) |->
                        tree.line[CHOOSE j \in Subtree(tree, i) :
                                     \A k \in Subtree(tree, i) : k <= j]]]

FunctionNames == {"f", "g"}

WithNames(tree, names) ==
    [parent |-> tree.parent, kind |-> tree.kind, line |-> tree.line,
     end_lineno |-> tree.end_lineno, name |-> names]

\* the Module has no name
NamedTrees(trees, n) ==
    UNION {{WithNames(t, <<"">> \o names) : names \in [1..(n - 1) -> FunctionNames]} :
              t \in trees}

\* the trees of up to max nodes of functions and classes
LengthTrees(max) ==
    UNION {NamedTrees({WithEndLines(t) : t \in TreesOf(n, FunctionKinds \cup {"ClassDef"})},
                      n) : n \in 1..max}

InitLength ==
    /\ InitFn
    /\ arg \in [tree : LengthTrees(MaxAstNodes), max_function_lines : 1..MaxFunctionLines]

DetectLongFunctions ==
    /\ ~ ret.done
    /\ ret' = [done |-> TRUE,
               value |-> detect_long_functions(arg.tree, arg.max_function_lines)]
    /\ UNCHANGED arg

NextLength == DetectLongFunctions

SpecLength == InitLength /\ [][NextLength /\ UNCHANGED <<storeVars, cleanVars>>]_vars

----------------------------------------------------------------------------
(* Analyzer._detect_dead_code on every tree of up to MaxAstNodes nodes of   *)
(* functions, classes and names in Store and Load context.                  *)

SymbolKinds == {"FunctionDef", "ClassDef", "NameStore", "NameLoad"}

\* an ast.Name holds no other node
NamesAreLeaves(tree) ==
    \A i \in 2..Len(tree.parent) :
        tree.kind[tree.parent[i]] \notin {"NameStore", "NameLoad", "NameDel"}

SymbolTrees(max) ==
    UNION {NamedTrees({WithEndLines(t) : t \in {u \in TreesOf(n, SymbolKinds) :
                                                   NamesAreLeaves(u)}},
                      n) : n \in 1..max}

InitDeadCode ==
    /\ InitFn
    /\ arg \in [tree : SymbolTrees(MaxAstNodes)]

DetectDeadCode ==
    /\ ~ ret.done
    /\ ret' = [done |-> TRUE, value |-> detect_dead_code(arg.tree)]
    /\ UNCHANGED arg

NextDeadCode == DetectDeadCode

SpecDeadCode == InitDeadCode /\ [][NextDeadCode /\ UNCHANGED <<storeVars, cleanVars>>]_vars

----------------------------------------------------------------------------
(* The security issues of the analysis of a Python file: the security       *)
(* detector on every tree of up to MaxSecurityNodes nodes, then bandit.     *)

MaxSecurityNodes == 4

\* eval(..), exec(..), print(..), cursor.execute(..), obj.eval(..), a + b,
\* import pickle, from pickle import ..
SecurityNodes ==
    {[kind |-> "Call", func |-> "Name", name |-> "eval"],
     [kind |-> "Call", func |-> "Name", name |-> "exec"],
     [kind |-> "Call", func |-> "Name", name |-> "print"],
     [kind |-> "Call", func |-> "Attribute", name |-> "execute"],
     [kind |-> "Call", func |-> "Attribute", name |-> "eval"],
     [kind |-> "BinOp", func |-> "", name |-> ""],
     [kind |-> "Import", func |-> "", name |-> "pickle"],
     [kind |-> "ImportFrom", func |-> "", name |-> "pickle"]}

SecurityTrees(max) ==
    UNION {{[parent |-> p,
             kind |-> <<"Module">> \o [i \in 1..(n - 1) |-> c[i].kind],
             func |-> <<"">> \o [i \in 1..(n - 1) |-> c[i].func],
             name |-> <<"">> \o [i \in 1..(n - 1) |-> c[i].name],
             line |-> [i \in 1..n |-> i]] :
               p \in PreorderParents(n), c \in [1..(n - 1) -> SecurityNodes]} :
           n \in 1..max}

\* the severities bandit gives its findings
BanditSeverities == {"LOW", "MEDIUM", "HIGH"}

NoJson == [type |-> "", results_type |-> "", results |-> <<>>]

\* one entry of bandit's "results": a finding on line 2, an object with none
\* of the keys, or a string
BanditResults ==
    [type : {"dict"}, line_number : {2}, issue_text : {"bandit finding"},
     issue_severity : BanditSeverities]
    \cup {[type |-> t, line_number |-> MissingLine, issue_text |-> Missing,
            issue_severity |-> Missing] : t \in {"dict", "str"}}

BanditOutcomes ==
    {[kind |-> k, json |-> NoJson] :
        k \in {"TimeoutExpired", "FileNotFoundError", "OSError", "no_stdout",
               "JSONDecodeError"}}
    \cup {[kind |-> "json", json |-> j] :
            j \in {[type |-> "list", results_type |-> "", results |-> <<>>],
                   [type |-> "dict", results_type |-> "missing", results |-> <<>>],
                   [type |-> "dict", results_type |-> "number", results |-> <<>>],
                   [type |-> "dict", results_type |-> "list", results |-> <<>>]}
                  \cup {[type |-> "dict", results_type |-> "list", results |-> <<b>>] :
                           b \in BanditResults}}

InitSecurity ==
    /\ InitFn
    /\ arg \in [tree : SecurityTrees(MaxSecurityNodes), bandit : BanditOutcomes]

\* _analyze_python_file, lines 104 and 110-114: the security detector, then
\* bandit, then security_issues = the issues of type security
AnalyzeSecurity ==
    /\ ~ ret.done
    /\ LET bandit == analyze_with_bandit(arg.bandit)
           issues == detect_security_issues(arg.tree) \o bandit.issues
       IN ret' = [done |-> TRUE,
                  value |-> [raised |-> bandit.raised,
                             security_issues |->
                                IF bandit.raised # "" THEN <<>>
                                ELSE SelectSeq(issues, LAMBDA i : i.type = "security")]]
    /\ UNCHANGED arg

NextSecurity == AnalyzeSecurity

SpecSecurity == InitSecurity /\ [][NextSecurity /\ UNCHANGED <<storeVars, cleanVars>>]_vars

----------------------------------------------------------------------------
(* The analysis of one Python file and the lint of one Python file, over    *)
(* the ways reading, parsing and the three tools can end.                   *)

\* an empty file; def f(): eval(x); and five conditionals one inside the other
AnalysedTrees ==
    {[parent |-> <<0>>, kind |-> <<"Module">>, line |-> <<1>>, end_lineno |-> <<1>>,
      name |-> <<"">>, func |-> <<"">>],
     [parent |-> <<0, 1, 2, 3>>,
      kind |-> <<"Module", "FunctionDef", "Call", "NameLoad">>,
      line |-> <<1, 2, 3, 3>>, end_lineno |-> <<3, 3, 3, 3>>,
      name |-> <<"", "f", "eval", "x">>, func |-> <<"", "", "Name", "">>],
     [parent |-> <<0, 1, 2, 3, 4, 5>>,
      kind |-> <<"Module", "If", "If", "If", "If", "If">>,
      line |-> <<1, 2, 3, 4, 5, 6>>, end_lineno |-> <<6, 6, 6, 6, 6, 6>>,
      name |-> <<"", "", "", "", "", "">>, func |-> <<"", "", "", "", "", "">>]}

NoTree == [parent |-> <<>>, kind |-> <<>>, line |-> <<>>, end_lineno |-> <<>>,
           name |-> <<>>, func |-> <<>>]

ParseOutcomes ==
    {[kind |-> "tree", tree |-> t, lineno |-> 0] : t \in AnalysedTrees}
    \cup {[kind |-> "SyntaxError", tree |-> NoTree, lineno |-> n] : n \in {0, 3}}
    \cup {[kind |-> "RecursionError", tree |-> NoTree, lineno |-> 0]}

\* the entries radon may list for a function: a simple one, one over the
\* complexity limit, one over the length limit, one whose complexity is a
\* string, and a string in place of the entry
RadonFunctions ==
    {[type |-> "dict", name |-> "f", complexity_type |-> "number", complexity |-> 1,
      loc |-> 1],
     [type |-> "dict", name |-> "f", complexity_type |-> "number", complexity |-> 11,
      loc |-> 1],
     [type |-> "dict", name |-> "f", complexity_type |-> "missing", complexity |-> 0,
      loc |-> 51],
     [type |-> "dict", name |-> "f", complexity_type |-> "str", complexity |-> 0,
      loc |-> 1],
     [type |-> "str", name |-> Missing, complexity_type |-> "missing", complexity |-> 0,
      loc |-> 0]}

NoRadonJson == [type |-> "", values |-> <<>>]

RadonOutcomes ==
    {[kind |-> k, json |-> NoRadonJson] :
        k \in {"TimeoutExpired", "FileNotFoundError", "OSError", "returncode",
               "no_stdout", "JSONDecodeError"}}
    \cup {[kind |-> "json", json |-> j] :
            j \in {[type |-> "list", values |-> <<>>],
                   [type |-> "dict", values |-> <<>>],
                   [type |-> "dict", values |-> <<[type |-> "str", funcs |-> <<>>]>>]}
                  \cup {[type |-> "dict", values |-> <<[type |-> t, funcs |-> <<f>>]>>] :
                           t \in {"list", "dict"}, f \in RadonFunctions}}

AnalyzeInputs ==
    [op : {"analyze"}, read : {"ok", "OSError", "UnicodeDecodeError"},
     parse : ParseOutcomes, radon : RadonOutcomes, bandit : BanditOutcomes]

\* LinterConfig.max_line_length as the configuration file sets it
MaxLineLength == 2

\* the texts linted: empty, clean, with trailing whitespace, too long, and
\* without the final newline
LintedContents ==
    {<<>>, <<"x", "nl">>, <<"x", "ws", "nl">>, <<"x", "x", "x", "nl">>, <<"x">>}

\* "f.py:1:1: E501 ..", "warning: a:b:c", "error: a:b:c", "Found 1 error.", ""
RuffLines ==
    {[blank |-> FALSE, parts |-> 4, numeric |-> TRUE, error |-> FALSE],
     [blank |-> FALSE, parts |-> 4, numeric |-> FALSE, error |-> FALSE],
     [blank |-> FALSE, parts |-> 4, numeric |-> FALSE, error |-> TRUE],
     [blank |-> FALSE, parts |-> 1, numeric |-> FALSE, error |-> TRUE],
     [blank |-> TRUE, parts |-> 1, numeric |-> FALSE, error |-> FALSE]}

RuffCheckOutcomes ==
    {[kind |-> k, returncode |-> 0, stdout |-> <<>>] : k \in {"TimeoutExpired", "OSError"}}
    \cup [kind : {"ran"}, returncode : {0, 1},
          stdout : {<<>>} \cup {<<l>> : l \in RuffLines}]

LintInputs ==
    [op : {"lint"}, content : LintedContents, read : {"ok", "OSError"},
     max_line_length : {MaxLineLength}, auto_fix : BOOLEAN,
     version : {"ok", "returncode", "FileNotFoundError", "TimeoutExpired", "OSError"},
     check : RuffCheckOutcomes, format : {"ok", "returncode", "TimeoutExpired"}]

\* how many files a directory holds at most
MaxDirFiles == 2

\* the files of a directory: Python files on a machine without radon and
\* bandit, and a JavaScript file
DirFiles ==
    [suffix : {"py"},
     in : {i \in AnalyzeInputs : /\ i.radon.kind = "FileNotFoundError"
                                 /\ i.bandit.kind = "FileNotFoundError"}]
    \cup {[suffix |-> "js", in |-> CHOOSE i \in AnalyzeInputs : TRUE]}

DirectoryInputs(max) ==
    [op : {"analyze_dir"}, files : UNION {[1..n -> DirFiles] : n \in 0..max}]

InitAnalyze ==
    /\ InitFn
    /\ arg \in AnalyzeInputs \cup LintInputs \cup DirectoryInputs(MaxDirFiles)

AnalyzePythonFile ==
    /\ ~ ret.done
    /\ arg.op = "analyze"
    /\ ret' = [done |-> TRUE, value |-> analyze_python_file(arg)]
    /\ UNCHANGED arg

LintWithRuff ==
    /\ ~ ret.done
    /\ arg.op = "lint"
    /\ ret' = [done |-> TRUE, value |-> lint_with_ruff(arg)]
    /\ UNCHANGED arg

AnalyzeDirectory ==
    /\ ~ ret.done
    /\ arg.op = "analyze_dir"
    /\ ret' = [done |-> TRUE, value |-> analyze_directory(arg.files)]
    /\ UNCHANGED arg

NextAnalyze ==
    \/ AnalyzePythonFile
    \/ LintWithRuff
    \/ AnalyzeDirectory

SpecAnalyze == InitAnalyze /\ [][NextAnalyze /\ UNCHANGED <<storeVars, cleanVars>>]_vars

----------------------------------------------------------------------------
(* Properties of the clean command. *)

EventAt(e) == {i \in DOMAIN events : events[i] = e}
Happened(e) == EventAt(e) # {}

\* every occurrence of an event of `later` has an event of `earlier` before it
Preceded(later, earlier) ==
    \A i \in DOMAIN events :
        events[i] \in later => \E j \in 1..(i - 1) : events[j] \in earlier

\* the provider was called
ProviderEvents == ProviderErrors \cup {"provider_ok"}
ProviderCalls == {i \in DOMAIN events : events[i] \in ProviderEvents}

\* the provider calls made after a validation failure: the repair attempts
RepairAttempts ==
    {i \in ProviderCalls : \E j \in 1..(i - 1) : events[j] = "validate_false"}

\* the steps that change the target in place
TargetWrites == {"lint_fix", "candidate_to_target", "restore"}

\* the rollback was called
RollbackCalls == {"restore", "rollback_no_backup"}

\* C1: the candidate is written to the target only after validate has returned
\* True for it, and while validate runs the candidate lies in the temporary
\* directory of that call and nowhere else.
C1_NoCandidateBeforeValidation ==
    /\ Preceded({"candidate_to_target"}, {"validate_true"})
    /\ pc = "validating" =>
          \E d \in tmp : d.id = temp_dir /\ d.content = refactor_results.refactored_code

\* C1 witness: in a run that is no dry run validate has returned True for a
\* candidate that differs from the target.
C1_Witness ==
    /\ pc = "validated"
    /\ ~ run.dry_run
    /\ validation_passed
    /\ refactor_results.refactored_code # fs[run.target].content

\* C2: a run that is no dry run, whose refactoring succeeded and whose candidate
\* passed validation, ends with the target holding the candidate.
C2_ApplyCommitsCandidate ==
    (/\ pc = "done"
     /\ ~ run.dry_run
     /\ refactor_results.success
     /\ Happened("validate_true"))
    => fs[run.target].content = refactor_results.refactored_code

\* the candidate matches a hardcoded-secret or a dangerous-call pattern
Unsafe(code) == contains_hardcoded_secrets(code) \/ contains_dangerous_call(code)

\* C3: validate returns False for every candidate that matches a
\* hardcoded-secret or a dangerous-call pattern, whatever the other checks say
\* and whatever the flags are.
C3_UnsafeCandidateNeverPasses ==
    (pc = "validated" /\ Unsafe(refactor_results.refactored_code))
    => ~ validation_passed

\* C3 witness: validate has returned False for a candidate with a dangerous call,
\* both optional checks switched off and the syntax check passed.
C3_Witness ==
    /\ pc = "validated"
    /\ contains_dangerous_call(refactor_results.refactored_code)
    /\ ~ cfg.run_linter_after
    /\ ~ cfg.run_static_analysis
    /\ Len(checks) = 2
    /\ checks[1].passed
    /\ ~ validation_passed

\* C4: with at least one repair attempt configured, no rollback happens before a
\* repair attempt was made.
C4_RepairBeforeRollback ==
    cfg.max_validation_retries >= 1 =>
        \A i \in DOMAIN events :
            events[i] \in RollbackCalls => \E j \in RepairAttempts : j < i

\* C5: a run makes no more repair attempts than max_validation_retries, and a run
\* that ends with its validation failed has called rollback and returns 1.
C5_RepairAttemptsBounded ==
    /\ Cardinality(RepairAttempts) <= cfg.max_validation_retries
    /\ (pc = "done" /\ Happened("validate_false")) =>
          /\ events[Len(events)] \in RollbackCalls
          /\ exit_code = 1

\* C5 witness: a run whose validation failed has ended in a rollback that
\* restored the target from a snapshot.
C5_Witness ==
    /\ pc = "done"
    /\ Happened("validate_false")
    /\ Happened("restore")
    /\ exit_code = 1

\* C6: every step of a run that changes the target in place comes after a
\* create_backup of that run that returned a snapshot.
C6_SnapshotBeforeModification == Preceded(TargetWrites, {"backup_ok"})

\* the last provider failure of the run, "None" if there was none
LastFailure ==
    LET failed == {i \in DOMAIN events : events[i] \in ProviderErrors}
    IN IF failed = {} THEN "None"
       ELSE events[CHOOSE i \in failed : \A j \in failed : j <= i]

\* C10: the provider is called at most max_retries times; no call follows a
\* successful one; when the retry loop was entered and no call succeeded,
\* _refactor_file returns a failed result whose error names the last failure,
\* which is what refactor returns for a file target; and the exception never
\* leaves the refactoring.
C10_BoundedRetries ==
    /\ Cardinality(ProviderCalls) <= cfg.max_retries
    /\ \A i \in EventAt("provider_ok") : \A j \in ProviderCalls : j <= i
    /\ pc # "crashed"
    /\ (Happened("prompt") /\ pc # "ai_call" /\ ~ Happened("provider_ok")) =>
          /\ Cardinality(ProviderCalls) = cfg.max_retries
          /\ ~ file_result.success
          /\ ~ refactor_results.success
          /\ file_result.error =
                [kind |-> "ai", attempts |-> cfg.max_retries, last |-> LastFailure]
          /\ fs[run.target].kind = "file" => refactor_results = file_result

\* C10 witness: two provider calls have failed, with different errors, and the
\* refactoring has returned its failed result.
C10_Witness ==
    /\ pc = "refactored"
    /\ cfg.max_retries >= 2
    /\ Happened("timeout")
    /\ LastFailure = "api error"
    /\ ~ Happened("provider_ok")
    /\ ~ file_result.success

\* C11: once refactor has worked on a file whose AnalysisResult has no issues,
\* whatever the LintResult, the provider was not asked, and unless the file
\* could not be read the result is successful, holds the file's text and
\* reports no change.
C11_NoAnalysisIssuesShortCircuits ==
    (/\ pc \in {"ai_call", "refactored"}
     /\ fs[run.target].kind = "file"
     /\ ~ analysis_has_issues)
    => /\ pc = "refactored"
       /\ ~ Happened("prompt")
       /\ ProviderCalls = {}
       /\ refactor_results.error.kind # "read" =>
             /\ refactor_results.success
             /\ refactor_results.refactored_code = fs[run.target].content
             /\ refactor_results.changes_made = 0

\* the names of the checks validate has run, in the order it ran them
ChecksRun == [i \in 1..Len(checks) |-> checks[i].check]

\* C12: validate runs syntax, then lint and static analysis when their flags are
\* set, then safety; after a failed syntax check it runs nothing more and
\* returns False; otherwise it returns True exactly when every check it ran
\* passed.
C12_ChecksInOrder ==
    pc = "validated" =>
       /\ Len(checks) >= 1
       /\ IF ~ checks[1].passed
          THEN ChecksRun = <<"syntax">> /\ ~ validation_passed
          ELSE /\ ChecksRun = <<"syntax">>
                               \o (IF cfg.run_linter_after THEN <<"linting">> ELSE <<>>)
                               \o (IF cfg.run_static_analysis
                                   THEN <<"static_analysis">> ELSE <<>>)
                               \o <<"safety">>
               /\ validation_passed = (\A i \in 1..Len(checks) : checks[i].passed)

\* C12 witness: validate has run all four checks, only the lint check failed,
\* and it returned False.
C12_Witness ==
    /\ pc = "validated"
    /\ Len(checks) = 4
    /\ \A i \in 1..4 : checks[i].passed = (i # 2)
    /\ ~ validation_passed

\* a call of validate has ended, by a return or by an exception
ValidateEnded == pc = "validated" \/ Happened("validate_raised")

\* C13 as stated: when validate has ended, no temporary directory is left.
C13_TempDirRemovedAlways == ValidateEnded => tmp = {}

\* C13: when validate has ended, by returning True, by returning False or by an
\* exception, its temporary directory is gone, unless shutil.rmtree itself
\* failed: then the error is swallowed and the directory stays.
C13_TempDirRemovedUnlessRmtreeFails ==
    ValidateEnded => (tmp = {} <=> ~ Happened("rmtree_failed"))

\* C13 witness: validate was left by an exception after it had made its
\* temporary directory, and the directory is gone.
C13_Witness ==
    /\ Happened("validate_raised")
    /\ nTmp = 1
    /\ tmp = {}

\* response[i..k+1] is a fenced block: a fence, word characters up to a line
\* break, the inner text, and the first line break after it that a fence
\* follows
IsFencedBlock(response, i, k) ==
    /\ 1 <= i /\ i < k /\ k < Len(response)
    /\ response[i] = "fence"
    /\ response[k] = "nl"
    /\ response[k + 1] = "fence"
    /\ \E j \in (i + 1)..(k - 1) :
          /\ response[j] = "nl"
          /\ \A w \in (i + 1)..(j - 1) : IsWord(response[w])
          /\ ~ \E c \in (j + 1)..(k - 1) : response[c] = "nl" /\ response[c + 1] = "fence"

\* the inner text of the fenced block response[i..k+1]
InnerText(response, i, k) ==
    LET j == CHOOSE a \in (i + 1)..(k - 1) :
                 response[a] = "nl" /\ \A w \in (i + 1)..(a - 1) : IsWord(response[w])
    IN SubSeq(response, j + 1, k - 1)

FencedBlocks(response) ==
    {b \in (1..Len(response)) \X (1..Len(response)) :
        IsFencedBlock(response, b[1], b[2])}

----------------------------------------------------------------------------
(* Properties of the detectors. *)

\* the nesting depth of node i: the control blocks among the node and its
\* ancestors
NestingDepthOf(tree, i) ==
    Cardinality({a \in AncestorsOrSelf(tree.parent, i) : tree.kind[a] \in ControlKinds})

\* the positions of the issues reported at the line of node i
IssuesAt(issues, tree, i) == {k \in 1..Len(issues) : issues[k].line = tree.line[i]}

\* C15: the nesting detector reports one issue, with the node's line and its
\* depth, for each control block whose depth exceeds the maximum, and nothing
\* for any other node; the depth of a node counts the control blocks around it
\* on its own branch only.  For the six-level conditional and a maximum of 4
\* these are the two issues at depths 5 and 6.
C15_NestingIssuePerDeepNode ==
    ret.done =>
       /\ \A i \in 1..Len(arg.tree.parent) :
             IF /\ arg.tree.kind[i] \in ControlKinds
                /\ NestingDepthOf(arg.tree, i) > arg.max_nesting_depth
             THEN /\ Cardinality(IssuesAt(ret.value, arg.tree, i)) = 1
                  /\ \A k \in IssuesAt(ret.value, arg.tree, i) :
                        ret.value[k].depth = NestingDepthOf(arg.tree, i)
             ELSE IssuesAt(ret.value, arg.tree, i) = {}
       /\ arg.tree = SixLevelConditional =>
             /\ Len(ret.value) = 2
             /\ {ret.value[k].depth : k \in 1..2} = {5, 6}

\* C15 witness: a block nested two deep is followed by a sibling of its
\* outer block; with a maximum of 1 only the inner block is reported.
C15_Witness ==
    /\ ret.done
    /\ arg.max_nesting_depth = 1
    /\ arg.tree.parent = <<0, 1, 2, 1>>
    /\ arg.tree.kind = <<"Module", "If", "For", "While">>
    /\ Len(ret.value) = 1
    /\ ret.value[1].line = 3
    /\ ret.value[1].depth = 2

\* C15 witness of the scenario: the six-level conditional with the default
\* maximum has been analysed.
C15_SixLevelAnalysed ==
    /\ ret.done
    /\ arg.tree = SixLevelConditional
    /\ Len(ret.value) = 2

\* C16: for every function or async function, nested ones included, that spans
\* the lines s..e, the length detector reports one issue with the function's
\* name and function_length = e - s + 1 when e - s + 1 exceeds the maximum, and
\* none otherwise; it reports nothing for other nodes.
C16_LengthIssuePerLongFunction ==
    ret.done =>
       \A i \in 1..Len(arg.tree.parent) :
          LET span == arg.tree.end_lineno[i] - arg.tree.line[i] + 1
          IN IF arg.tree.kind[i] \in FunctionKinds /\ span > arg.max_function_lines
             THEN /\ Cardinality(IssuesAt(ret.value, arg.tree, i)) = 1
                  /\ \A k \in IssuesAt(ret.value, arg.tree, i) :
                        /\ ret.value[k].function_length = span
                        /\ ret.value[k].function_name = arg.tree.name[i]
             ELSE IssuesAt(ret.value, arg.tree, i) = {}

\* C16 witness: a function of three lines holds an async function of two
\* lines; with a maximum of 2 only the outer one is reported, with length 3.
C16_Witness ==
    /\ ret.done
    /\ arg.max_function_lines = 2
    /\ arg.tree.parent = <<0, 1, 2, 3>>
    /\ arg.tree.kind = <<"Module", "FunctionDef", "AsyncFunctionDef", "ClassDef">>
    /\ arg.tree.name = <<"", "f", "g", "g">>
    /\ Len(ret.value) = 1
    /\ ret.value[1].function_name = "f"
    /\ ret.value[1].function_length = 3

\* the nodes that bind the name, and the nodes that read it (a Name in Load
\* context)
BindingsOf(tree, name) ==
    {i \in 2..Len(tree.parent) : tree.kind[i] \in BindingKinds /\ tree.name[i] = name}
ReadsOf(tree, name) ==
    {i \in 2..Len(tree.parent) : tree.kind[i] = "NameLoad" /\ tree.name[i] = name}

\* C17: a name that is bound in the file and read nowhere in it is reported
\* once, at the line of its last binding; a name that is read somewhere, or
\* bound nowhere, is not reported.
C17_DeadNameReportedOnce ==
    ret.done =>
       \A name \in FunctionNames :
          LET reported == {k \in 1..Len(ret.value) : ret.value[k].name = name}
              bindings == BindingsOf(arg.tree, name)
          IN IF bindings # {} /\ ReadsOf(arg.tree, name) = {}
             THEN /\ Cardinality(reported) = 1
                  /\ \A k \in reported :
                        ret.value[k].line =
                           arg.tree.line[CHOOSE i \in bindings :
                                            \A j \in bindings : j <= i]
             ELSE reported = {}

\* C17 witness: f is defined on line 2 and bound again on line 4, g is only
\* read; f alone is reported, at line 4.
C17_Witness ==
    /\ ret.done
    /\ arg.tree.parent = <<0, 1, 2, 1>>
    /\ arg.tree.kind = <<"Module", "FunctionDef", "NameLoad", "NameStore">>
    /\ arg.tree.name = <<"", "f", "g", "f">>
    /\ Len(ret.value) = 1
    /\ ret.value[1].name = "f"
    /\ ret.value[1].line = 4

\* the calls of eval or exec by name
EvalExecCalls(tree) ==
    {i \in 1..Len(tree.parent) :
        /\ tree.kind[i] = "Call"
        /\ tree.func[i] = "Name"
        /\ tree.name[i] = "eval" \/ tree.name[i] = "exec"}

\* the other constructs the security detector looks for
OtherDangerous(tree) ==
    {i \in 1..Len(tree.parent) :
        \/ tree.kind[i] \in {"Import", "ImportFrom"}
        \/ tree.kind[i] = "Call" /\ tree.func[i] = "Attribute" /\ tree.name[i] = "execute"}

CriticalSecurityIssues(issues) ==
    {k \in 1..Len(issues) : issues[k].type = "security" /\ issues[k].severity = "critical"}

\* C18: when the analysis returns, each call of eval or exec by name has
\* exactly one critical security issue at its line that names eval/exec, no
\* other line has one, and where these calls are the only dangerous
\* constructs there is no other critical security issue.
C18_OneCriticalIssuePerEvalCall ==
    (ret.done /\ ret.value.raised = "") =>
       LET issues == ret.value.security_issues
           naming == {k \in CriticalSecurityIssues(issues) :
                         issues[k].message = "Dangerous use of eval/exec detected"}
       IN /\ \A i \in 1..Len(arg.tree.parent) :
                Cardinality({k \in naming : issues[k].line = arg.tree.line[i]})
                   = IF i \in EvalExecCalls(arg.tree) THEN 1 ELSE 0
          /\ Cardinality(naming) = Cardinality(EvalExecCalls(arg.tree))
          /\ OtherDangerous(arg.tree) = {} => CriticalSecurityIssues(issues) = naming

\* C18 witness: eval(exec(x)) on lines 2 and 3, which bandit also reports:
\* two critical issues, one at each line, and bandit's finding beside them.
C18_Witness ==
    /\ ret.done
    /\ ret.value.raised = ""
    /\ arg.tree.parent = <<0, 1, 2>>
    /\ arg.tree.func = <<"", "Name", "Name">>
    /\ arg.tree.name = <<"", "eval", "exec">>
    /\ arg.bandit.kind = "json"
    /\ Len(ret.value.security_issues) = 3
    /\ ret.value.security_issues[1].line = 2
    /\ ret.value.security_issues[2].line = 3
    /\ ret.value.security_issues[3].severity = "MEDIUM"
    /\ Cardinality(CriticalSecurityIssues(ret.value.security_issues)) = 2

\* every issue an AnalysisResult holds, under whatever severity
RECURSIVE FlattenOver(_, _)
FlattenOver(f, keys) ==
    IF keys = {} THEN <<>>
    ELSE LET k == CHOOSE x \in keys : TRUE
         IN f[k] \o FlattenOver(f, keys \ {k})

IssuesHeld(result) == FlattenOver(result.issues_by_severity, DOMAIN result.issues_by_severity)

ParseFailed == arg.op = "analyze" /\ arg.read = "ok" /\ arg.parse.kind = "SyntaxError"

\* C19: the analysis of a file that does not parse runs no detector and no
\* tool, returns, and its result has has_issues true and holds exactly one
\* issue, of category syntax and severity critical, at the line of the error.
C19_ParseFailureYieldsCriticalSyntaxIssue ==
    (ret.done /\ ParseFailed) =>
       /\ ret.value.raised = ""
       /\ ret.value.ran = <<>>
       /\ ret.value.has_issues
       /\ ret.value.issue_count = 1
       /\ Len(IssuesHeld(ret.value)) = 1
       /\ IssuesHeld(ret.value)[1].type = "syntax"
       /\ IssuesHeld(ret.value)[1].severity = "critical"
       /\ IssuesHeld(ret.value)[1].line =
             IF arg.parse.lineno = 0 THEN 1 ELSE arg.parse.lineno

\* what does hold on a parse failure: the result is returned with one issue
\* of category syntax at the line of the error, and nothing else ran
C19_ParseFailureYieldsSyntaxIssue ==
    (ret.done /\ ParseFailed) =>
       /\ ret.value.raised = ""
       /\ ret.value.ran = <<>>
       /\ ret.value.has_issues
       /\ ret.value.issue_count = 1
       /\ Len(IssuesHeld(ret.value)) = 1
       /\ IssuesHeld(ret.value)[1].type = "syntax"
       /\ IssuesHeld(ret.value)[1].line =
             IF arg.parse.lineno = 0 THEN 1 ELSE arg.parse.lineno

Parsed == arg.op = "analyze" /\ arg.read = "ok" /\ arg.parse.kind = "tree"

\* radon is absent, runs out of time, or prints what is not its JSON
RadonFailed ==
    \/ arg.radon.kind \in {"FileNotFoundError", "TimeoutExpired", "JSONDecodeError"}
    \/ /\ arg.radon.kind = "json"
       /\ \/ arg.radon.json.type # "dict"
          \/ \E k \in 1..Len(arg.radon.json.values) :
                LET v == arg.radon.json.values[k]
                IN \/ v.type = "str"
                   \/ \E j \in 1..Len(v.funcs) :
                         v.funcs[j].type = "str" \/ v.funcs[j].complexity_type = "str"

\* bandit is absent, runs out of time, or prints what is not its JSON
BanditFailed ==
    \/ arg.bandit.kind \in {"FileNotFoundError", "TimeoutExpired", "JSONDecodeError"}
    \/ /\ arg.bandit.kind = "json"
       /\ \/ arg.bandit.json.type # "dict"
          \/ arg.bandit.json.results_type = "number"
          \/ \E k \in 1..Len(arg.bandit.json.results) :
                arg.bandit.json.results[k].type = "str"

\* ruff is absent, runs out of time, or prints lines that are not findings
RuffFailed ==
    /\ arg.op = "lint"
    /\ \/ arg.version \in {"FileNotFoundError", "TimeoutExpired"}
       \/ /\ arg.version = "ok"
          /\ \/ arg.check.kind = "TimeoutExpired"
             \/ /\ arg.check.kind = "ran"
                /\ arg.check.stdout # <<>>
                /\ \A k \in 1..Len(arg.check.stdout) :
                      ~ arg.check.stdout[k].blank /\ ~ arg.check.stdout[k].numeric

\* what the four detectors find in the tree
DetectedIn(tree) ==
    Len(detect_deep_nesting(tree, DefaultMaxNestingDepth))
    + Len(detect_long_functions(tree, DefaultMaxFunctionLines))
    + Len(detect_dead_code(tree))
    + Len(detect_security_issues(tree))

\* C20: when radon and bandit fail (absent, timed out, or output malformed),
\* the analysis returns with the issues of the detectors alone; when ruff
\* fails in one of these ways, the lint returns with no issue.
C20_FailedToolContributesNothing ==
    ret.done =>
       /\ (Parsed /\ RadonFailed /\ BanditFailed) =>
             /\ ret.value.raised = ""
             /\ ret.value.issue_count = DetectedIn(arg.parse.tree)
       /\ RuffFailed =>
             /\ ret.value.raised = ""
             /\ ret.value.issues = <<>>

\* the issues an AnalysisResult holds in its partition by category
IssuesHeldByType(result) == FlattenOver(result.issues_by_type, DOMAIN result.issues_by_type)

Analysed == ret.done /\ arg.op \in {"analyze", "analyze_dir"} /\ ret.value.raised = ""

\* C21: every AnalysisResult returned has has_issues exactly when
\* issue_count > 0, and issue_count is the number of issues in the buckets of
\* the partition by severity and in those of the partition by category.
C21_ResultCountsAgree ==
    Analysed =>
       /\ ret.value.has_issues <=> ret.value.issue_count > 0
       /\ ret.value.issue_count = Len(IssuesHeld(ret.value))
       /\ ret.value.issue_count = Len(IssuesHeldByType(ret.value))

\* what does hold of every result: has_issues exactly when issue_count > 0
C21_FlagAgreesWithCount ==
    Analysed => (ret.value.has_issues <=> ret.value.issue_count > 0)

\* the issue_count values of the per-file results
RECURSIVE SumOfCounts(_)
SumOfCounts(files) ==
    IF files = <<>> THEN 0
    ELSE analyze_file(Head(files)).issue_count + SumOfCounts(Tail(files))

\* C30: the issue_count of a directory's result is the sum of the
\* issue_count values of its files' results, and has_issues is true when a
\* file's result has issues.
C30_DirectoryAggregatesEveryIssue ==
    (Analysed /\ arg.op = "analyze_dir") =>
       /\ ret.value.issue_count = SumOfCounts(arg.files)
       /\ (\E k \in 1..Len(arg.files) : analyze_file(arg.files[k]).has_issues)
             => ret.value.has_issues

\* the three ways run_clean is said to end
EndsWithReport == exit_code = 0
EndsRefactorFailed ==
    exit_code = 1 /\ ~ refactor_results.success /\ ~ Happened("validate_begin")
EndsRolledBack ==
    exit_code = 1 /\ Happened("validate_false") /\ \E e \in RollbackCalls : Happened(e)

\* C24: a run of run_clean that has ended has ended in exactly one of:
\* report and exit 0, refactor failed and exit 1, validation failed with the
\* rollback attempted and exit 1.
C24_EndsInOneOutcome ==
    pc = "done" =>
       /\ EndsWithReport \/ EndsRefactorFailed \/ EndsRolledBack
       /\ ~ (EndsWithReport /\ EndsRefactorFailed)
       /\ ~ (EndsWithReport /\ EndsRolledBack)
       /\ ~ (EndsRefactorFailed /\ EndsRolledBack)

\* what does hold: every run of run_clean ends, with exit code 0 or 1, after
\* at most max_retries provider calls and one validation
C24_RunCleanTerminates == <>(pc = "done" /\ exit_code \in {0, 1})

\* C27: a run of run_clean without dry_run that ends with exit code 1,
\* the refactor having failed or the validation having failed, leaves the target
\* with the content it had when the run started.
C27_FailedRunLeavesTargetAsAtStart ==
    (pc = "done" /\ ~ run.dry_run /\ (EndsRefactorFailed \/ EndsRolledBack)) =>
        /\ fs[run.target].kind = TargetKind(run.target)
        /\ fs[run.target].content = CodeOrig

\* what does hold: after a failed validation of a directory target whose backup
\* was made, a rollback that no filesystem error interrupts leaves the content of
\* the start of the run
C27_RestoredDirectoryIsAsAtStart ==
    (/\ pc = "done"
     /\ EndsRolledBack
     /\ Happened("backup_ok")
     /\ Happened("restore")
     /\ lastOp.ok) =>
        /\ fs[run.target].kind = TargetKind(run.target)
        /\ fs[run.target].content = CodeOrig

----------------------------------------------------------------------------
(* Properties of overlapping validate invocations. *)

\* invocation i is inside validate
RunningIn(cs, i) == cs[i].pc \in {"entered", "checking", "finally", "raising"}

\* C26: two invocations that run their checks at the same time have their
\* candidate in different temporary directories; and an invocation whose finally
\* block meets no failure of rmtree removes no directory of an invocation that is
\* still inside validate, and leaves its own directory removed.
C26_InvocationsKeepApart ==
    [][\A i \in Invocations :
          /\ \A j \in Invocations \ {i} :
                (calls'[i].pc = "checking" /\ calls'[j].pc = "checking")
                => calls'[i].temp_file # calls'[j].temp_file
          /\ LeaveValidate(i, FALSE) =>
                /\ \A j \in Invocations \ {i} :
                      (RunningIn(calls, j) /\ DirExists(tmp, calls[j].dir))
                      => DirExists(tmp', calls[j].dir)
                /\ ~ DirExists(tmp', calls[i].dir)]_vars

\* what does hold: an invocation that no other overlaps, and whose finally block
\* meets no failure of rmtree, leaves its own directory removed and the field None
C26_LoneInvocationCleansUp ==
    [][\A i \in Invocations :
          (/\ LeaveValidate(i, FALSE)
           /\ temp_dir = calls[i].dir
           /\ \A j \in Invocations \ {i} : ~ RunningIn(calls, j))
          => (~ DirExists(tmp', calls[i].dir) /\ temp_dir' = 0)]_vars

\* what does hold: mkdtemp hands two invocations different directories
C26_FreshDirectoryPerCall ==
    \A i \in Invocations : \A j \in Invocations \ {i} :
        (RunningIn(calls, i) /\ RunningIn(calls, j)) => calls[i].dir # calls[j].dir

----------------------------------------------------------------------------
(* Properties of the check command. *)

\* C22: run_check leaves the content of every target as it found it.
C22_CheckLeavesTargetUnchanged ==
    [][pc' = "checked" => \A t \in Targets : fs'[t].content = fs[t].content]_vars

\* what does hold: without ruff, run_check leaves every target as it was
C22_CheckWithoutRuffOnlyReads ==
    [][(pc' = "checked" /\ events' = <<"lint">>) => fs' = fs]_vars

----------------------------------------------------------------------------
(* Properties of the Snapshot Store. *)

\* C23: no BackupManager operation lets a filesystem error reach its
\* caller; each returns its value.
C23_NoFilesystemErrorPropagates == ret.done => ret.value.raised = ""

\* what does hold: create_backup and rollback always return
C23_CreateAndRollbackReturn ==
    (ret.done /\ ret.value.op \in {"create_backup", "rollback"}) => ret.value.raised = ""


\* the snapshots of the store that create_backup wrote from target t
SnapshotsOf(st, t) == {e \in st : e.origin = t}

\* the most recently created of them
MostRecentOf(st, t) ==
    CHOOSE e \in SnapshotsOf(st, t) : \A o \in SnapshotsOf(st, t) : o.seq <= e.seq

\* no entry of the store has a name that starts with the target's name
NoSnapshotMatches(st, t) == ~ \E e \in st : StartsWith(e.name, TargetName(t))

\* C7: for a target of which the store holds a snapshot, a rollback that no
\* filesystem error interrupts returns True and leaves the target's content equal
\* to that of the target's most recent snapshot, whatever was done to the target
\* since.
C7_RollbackRestoresLatestSnapshot ==
    [][\A t \in Targets :
          (/\ lastOp'.op = "rollback"
           /\ lastOp'.target = t
           /\ ~ lastOp'.fault
           /\ SnapshotsOf(store, t) # {}
           /\ fs[t].content # MostRecentOf(store, t).content)
          => (/\ lastOp'.ok
              /\ fs'[t].content = MostRecentOf(store, t).content)]_vars

\* C8: the store never holds more than max_backups snapshots, and once more
\* than max_backups were created it holds exactly the max_backups most recently
\* created ones.
C8_RetentionKeepsNewestK ==
    /\ Cardinality(store) <= max_backups
    /\ Cardinality(created) > max_backups =>
          /\ Cardinality(store) = max_backups
          /\ \A e \in store : e.seq > nCreates - max_backups

\* C9: a rollback of a target that no snapshot of the store matches returns
\* False and changes neither the target nor the store.
C9_RollbackWithoutSnapshotFails ==
    [][\A t \in Targets :
          (/\ lastOp'.op = "rollback"
           /\ lastOp'.target = t
           /\ NoSnapshotMatches(store, t))
          => (/\ ~ lastOp'.ok
              /\ fs' = fs
              /\ store' = store
              /\ meta' = meta)]_vars

\* C9 witness: a rollback of an edited target has returned False while the store
\* held snapshots, none of them matching the target.
C9_Witness ==
    /\ lastOp.op = "rollback"
    /\ ~ lastOp.ok
    /\ store # {}
    /\ NoSnapshotMatches(store, lastOp.target)
    /\ fs[lastOp.target].content # CodeOrig

\* what the snapshot named as e holds in store st: nothing once it was deleted,
\* else its kind, content, modification time and the target it was taken from
HeldAs(st, e) ==
    {[kind |-> o.kind, content |-> o.content, mtime |-> o.mtime, origin |-> o.origin] :
        o \in EntryNamed(st, e.name)}

\* C25: a create_backup that succeeds leaves every snapshot of the store as
\* it was or deletes it (pruning), and returns a path that no snapshot of the
\* store already had.
C25_SnapshotNeverOverwritten ==
    [][nCreates' # nCreates =>
          /\ \A e \in store : HeldAs(store', e) \subseteq HeldAs(store, e)
          /\ EntryNamed(store, lastOp'.path) = {}]_vars

\* what does hold: snapshots of a directory target are never overwritten, since
\* copytree refuses a destination that exists
C25_DirectorySnapshotNeverOverwritten ==
    [][(nCreates' # nCreates /\ TargetKind(lastOp'.target) = "dir") =>
          /\ \A e \in store : HeldAs(store', e) \subseteq HeldAs(store, e)
          /\ EntryNamed(store, lastOp'.path) = {}]_vars

\* C28: the snapshot a rollback selects as its restore source was created
\* from the target that is rolled back.
C28_RollbackSelectsOwnSnapshot ==
    (lastOp.op = "rollback" /\ lastOp.path # NoPath) =>
        \A e \in EntryNamed(store, lastOp.path) : e.origin = lastOp.target

\* what does hold: the selected snapshot's name starts with the target's name
C28_RollbackSelectsByPrefix ==
    (lastOp.op = "rollback" /\ lastOp.path # NoPath) =>
        StartsWith(lastOp.path, TargetName(lastOp.target))

\* C29: a rollback that returns False leaves every target as it was.
C29_FailedRollbackLeavesTarget ==
    [][(lastOp'.op = "rollback" /\ ~ lastOp'.ok) => fs' = fs]_vars

\* what does hold: a rollback that returns False without having found a snapshot,
\* or whose deletion of the target failed, leaves every target as it was
C29_FailedBeforeDeleteLeavesTarget ==
    [][\A t \in Targets : \A failAt \in {"none", "delete"} :
          (Rollback(t, failAt) /\ ~ lastOp'.ok) => fs' = fs]_vars

====
